---- MODULE Spec2Model ----
(***************************************************************************)
(* Configuration core of git-laminar-flow: the Config entity tree, the     *)
(* hash engine (calculateHash / updateHash), the canonical serializer      *)
(* (toHash) and the API-version stamp.                                      *)
(*                                                                         *)
(* Strings are sequences of one-character strings, so that hash.update,    *)
(* which appends bytes to one running buffer, is sequence concatenation.   *)
(* An optional value (a field that may be undefined) is None or Some(x).   *)
(***************************************************************************)
EXTENDS Integers, Sequences, FiniteSets, TLC

VARIABLES
    phase,      \* position of the caller: "construct", "built", "hashed", "canon", "stamped", "derived", "otherHashed", "otherCanon", "legacyHashed"
    tree,       \* the Config tree (ConfigBase instance)
    fed,        \* values passed to hash.update by calculateHash on tree, in order (None before the call)
    docs,       \* docs[stamp]: the document returned by tree.toHash(stamp) (None before the call)
    other,      \* a second tree, built next to tree (None before it exists)
    rel,        \* how other was obtained: "none", "validated", "shadow", "swap"
    raw,        \* the document handed to validation when rel = "validated"
    swapped,    \* <<field, i, j>> when rel = "swap"
    fedOther,   \* values passed to hash.update by calculateHash on other
    docOther,   \* the document returned by other.toHash()
    fedLegacy,  \* values passed to hash.update by the legacy engine on the tree it builds from raw
    call,       \* the resolver, parser or schema call made last, with its arguments (None before any)
    outcome,    \* what that call did: a returned value or a thrown error (None before any)
    runs        \* the calculateHash invocations in progress and their hash objects (None where none is modelled)

vars == <<phase, tree, fed, docs, other, rel, raw, swapped, fedOther, docOther, fedLegacy, call, outcome, runs>>

-----------------------------------------------------------------------------
(* Optional values and strings *)

None == <<>>
Some(x) == <<x>>

\* JavaScript truthiness of an optional string: undefined and '' are falsy.
Truthy(o) == o # None /\ o[1] # <<>>

\* `x && hash.update(x)` / `if (x) hash.update(x)`: the values fed for an optional string.
FeedOpt(o) == IF Truthy(o) THEN <<o[1]>> ELSE <<>>

RECURSIVE Flat(_)
Flat(ss) == IF ss = <<>> THEN <<>> ELSE Head(ss) \o Flat(Tail(ss))

MapSeq(s, F(_)) == [i \in 1..Len(s) |-> F(s[i])]

\* Array.prototype.filter(i => !i.shadow)
NotShadow(e) == ~e.shadow
Visible(s) == SelectSeq(s, NotShadow)

\* Boolean.prototype.toString
BoolToString(b) == IF b THEN <<"t","r","u","e">> ELSE <<"f","a","l","s","e">>

sE == <<>>
sA == <<"a">>
sAA == <<"a","a">>
sB == <<"b">>

UNMANAGED == <<"u","n","m","a","n","a","g","e","d">>
API_VERSION == <<"v","1",".","5">>

-----------------------------------------------------------------------------
(* JSON.stringify over the composite values of the model: a string, an     *)
(* array of strings, and a map kept as the sequence of its entries in      *)
(* insertion order.                                                        *)

JStr(s) == [t |-> "s", s |-> s, a |-> <<>>]
JArr(a) == [t |-> "a", s |-> <<>>, a |-> a]
Entry(k, v) == [k |-> k, v |-> v]

Quote(s) == <<"\"">> \o s \o <<"\"">>

RECURSIVE Join(_)
Join(parts) ==
    IF parts = <<>> THEN <<>>
    ELSE IF Len(parts) = 1 THEN parts[1]
    ELSE parts[1] \o <<",">> \o Join(Tail(parts))

StringifyValue(v) ==
    IF v.t = "s" THEN Quote(v.s)
    ELSE <<"[">> \o Join(MapSeq(v.a, Quote)) \o <<"]">>

StringifyEntry(e) == Quote(e.k) \o <<":">> \o StringifyValue(e.v)

StringifyMap(m) == <<"{">> \o Join(MapSeq(m, StringifyEntry)) \o <<"}">>

\* A dependency is a string or a Record<string, string>.
DepStr(s) == [t |-> "s", s |-> s, m |-> <<>>]
DepMap(m) == [t |-> "m", s |-> <<>>, m |-> m]
StringifyDependency(d) == IF d.t = "s" THEN Quote(d.s) ELSE StringifyMap(d.m)

-----------------------------------------------------------------------------
(* Semver.coerce, as used on API_VERSION: the first run of digits is the   *)
(* major, up to two following ".digits" groups are minor and patch, the    *)
(* missing ones are "0"; no digit at all gives null (None).                *)

Digits == {"0","1","2","3","4","5","6","7","8","9"}

RunEnd(s, i) ==
    CHOOSE j \in i..Len(s) :
        /\ \A k \in i..j : s[k] \in Digits
        /\ (j = Len(s) \/ s[j+1] \notin Digits)

HasGroup(s, j) == j + 2 <= Len(s) /\ s[j+1] = "." /\ s[j+2] \in Digits

SemverCoerce(s) ==
    IF \A i \in 1..Len(s) : s[i] \notin Digits THEN None
    ELSE
        LET i1 == CHOOSE i \in 1..Len(s) :
                      s[i] \in Digits /\ \A k \in 1..(i-1) : s[k] \notin Digits
            j1 == RunEnd(s, i1)
            h2 == HasGroup(s, j1)
            j2 == IF h2 THEN RunEnd(s, j1 + 2) ELSE j1
            h3 == h2 /\ HasGroup(s, j2)
            j3 == IF h3 THEN RunEnd(s, j2 + 2) ELSE j2
            major == SubSeq(s, i1, j1)
            minor == IF h2 THEN SubSeq(s, j1 + 2, j2) ELSE <<"0">>
            patch == IF h3 THEN SubSeq(s, j2 + 2, j3) ELSE <<"0">>
            LeadingZero(n) == Len(n) > 1 /\ n[1] = "0"
        IN  IF LeadingZero(major) \/ LeadingZero(minor) \/ LeadingZero(patch)
            THEN None
            ELSE Some(major \o <<".">> \o minor \o <<".">> \o patch)

\* resolveApiVersion(): the module-level function; API_VERSION always coerces.
resolveApiVersion == SemverCoerce(API_VERSION)[1]

-----------------------------------------------------------------------------
(* Hash engine, current shape.  Each entity's updateHash is the sequence   *)
(* of values it passes to hash.update.                                     *)

TaggingUpdateHash(t) == <<t.name>> \o FeedOpt(t.annotation)

SubmoduleUpdateHash(s) ==
    <<s.name, s.path>> \o FeedOpt(s.url)
    \o s.tags
    \o (IF s.labels # <<>> THEN <<StringifyMap(s.labels)>> ELSE <<>>)
    \o (IF s.annotations # <<>> THEN <<StringifyMap(s.annotations)>> ELSE <<>>)

FeatureUpdateHash(f) ==
    <<f.name, f.branchName, f.sourceSha>>
    \o FeedOpt(f.version)
    \o FeedOpt(f.upstream)
    \o Flat(MapSeq(f.tags, TaggingUpdateHash))

ReleaseUpdateHash(r) ==
    <<r.name, r.branchName, r.sourceSha>>
    \o FeedOpt(r.version)
    \o FeedOpt(r.upstream)
    \o <<BoolToString(r.intermediate)>>
    \o Flat(MapSeq(r.tags, TaggingUpdateHash))

HotfixUpdateHash(h) ==
    <<h.name, h.branchName, h.sourceSha>>
    \o FeedOpt(h.version)
    \o FeedOpt(h.upstream)
    \o <<BoolToString(h.intermediate)>>
    \o Flat(MapSeq(h.tags, TaggingUpdateHash))

\* Mutant: the hotfixes of a Support are fed without the shadow filter.
SupportUpdateHash_UnfilteredHotfixes(s) ==
    <<s.name, s.masterBranchName, s.developBranchName, s.sourceSha>>
    \o FeedOpt(s.developVersion)
    \o FeedOpt(s.masterVersion)
    \o FeedOpt(s.upstream)
    \o Flat(MapSeq(Visible(s.features), FeatureUpdateHash))
    \o Flat(MapSeq(Visible(s.releases), ReleaseUpdateHash))
    \o Flat(MapSeq(s.hotfixes, HotfixUpdateHash))

SupportUpdateHash(s) ==
    <<s.name, s.masterBranchName, s.developBranchName, s.sourceSha>>
    \o FeedOpt(s.developVersion)
    \o FeedOpt(s.masterVersion)
    \o FeedOpt(s.upstream)
    \o Flat(MapSeq(Visible(s.features), FeatureUpdateHash))
    \o Flat(MapSeq(Visible(s.releases), ReleaseUpdateHash))
    \o Flat(MapSeq(Visible(s.hotfixes), HotfixUpdateHash))

IntegrationUpdateHash(i) == <<i.plugin, StringifyMap(i.options)>>

MessageTemplateUpdateHash(m) == <<m.name, m.message>>

TagTemplateUpdateHash(t) == <<t.name, t.tag>> \o FeedOpt(t.annotation)

UpstreamUpdateHash(u) == <<u.name, u.url>>

\* The values of one group of fields, each marked with the group it belongs to.
G(g, vals) == [i \in 1..Len(vals) |-> [g |-> g, v |-> vals[i]]]

\* Mutant: a version is fed only when it starts like a version number.
HeaderUpdateHash_ValidatedVersions(c) ==
    LET Checked(o) == IF Truthy(o) /\ o[1][1] \in Digits THEN <<o[1]>> ELSE <<>>
    IN  G("apiVersion", FeedOpt(c.apiVersion))
        \o G("identifier", <<c.identifier>>)
        \o G("managed", IF ~c.managed THEN <<UNMANAGED>> ELSE <<>>)
        \o G("version", Checked(c.developVersion) \o Checked(c.masterVersion))

\* Mutant: the sentinel of an unmanaged Config is not fed.
HeaderUpdateHash_NoSentinel(c) ==
    G("apiVersion", FeedOpt(c.apiVersion))
    \o G("identifier", <<c.identifier>>)
    \o G("version", FeedOpt(c.developVersion) \o FeedOpt(c.masterVersion))

\* Mutant: the identifier is fed before the apiVersion.
HeaderUpdateHash_IdentifierFirst(c) ==
    G("identifier", <<c.identifier>>)
    \o G("apiVersion", FeedOpt(c.apiVersion))
    \o G("managed", IF ~c.managed THEN <<UNMANAGED>> ELSE <<>>)
    \o G("version", FeedOpt(c.developVersion) \o FeedOpt(c.masterVersion))

\* The first statements of ConfigBase.updateHash: apiVersion, identifier,
\* the 'unmanaged' sentinel, developVersion, masterVersion.
HeaderUpdateHash(c) ==
    G("apiVersion", FeedOpt(c.apiVersion))
    \o G("identifier", <<c.identifier>>)
    \o G("managed", IF ~c.managed THEN <<UNMANAGED>> ELSE <<>>)
    \o G("version", FeedOpt(c.developVersion) \o FeedOpt(c.masterVersion))

ConfigUpdateHash(c) ==
    HeaderUpdateHash(c)
    \o G("upstreams", Flat(MapSeq(c.upstreams, UpstreamUpdateHash)))
    \o G("included", c.included)
    \o G("excluded", c.excluded)
    \o G("submodules", Flat(MapSeq(Visible(c.submodules), SubmoduleUpdateHash)))
    \o G("features", Flat(MapSeq(Visible(c.features), FeatureUpdateHash)))
    \o G("releases", Flat(MapSeq(Visible(c.releases), ReleaseUpdateHash)))
    \o G("hotfixes", Flat(MapSeq(Visible(c.hotfixes), HotfixUpdateHash)))
    \o G("supports", Flat(MapSeq(c.supports, SupportUpdateHash)))
    \o G("templates", FeedOpt(c.featureMessageTemplate)
                      \o FeedOpt(c.releaseMessageTemplate)
                      \o FeedOpt(c.hotfixMessageTemplate)
                      \o FeedOpt(c.releaseTagTemplate)
                      \o FeedOpt(c.hotfixTagTemplate))
    \o G("tags", c.tags)
    \o G("integrations", Flat(MapSeq(c.integrations, IntegrationUpdateHash)))
    \o G("commitMessageTemplates", Flat(MapSeq(c.commitMessageTemplates, MessageTemplateUpdateHash)))
    \o G("tagTemplates", Flat(MapSeq(c.tagTemplates, TagTemplateUpdateHash)))
    \o G("branchNames", FeedOpt(c.masterBranchName) \o FeedOpt(c.developBranchName))
    \o G("dependencies", MapSeq(IF c.dependencies = None THEN <<>> ELSE c.dependencies[1], StringifyDependency))
    \o G("labels", IF c.labels # <<>> THEN <<StringifyMap(c.labels)>> ELSE <<>>)
    \o G("annotations", IF c.annotations # <<>> THEN <<StringifyMap(c.annotations)>> ELSE <<>>)

\* The bytes the hash object has consumed: the concatenation of the values fed.
Value(tok) == tok.v
Bytes(feed) == Flat(MapSeq(feed, Value))

-----------------------------------------------------------------------------
(* Canonical serializer, current shape (toHash).  A key the method does    *)
(* not emit is None in the document, like a key emitted as undefined.      *)

OptSeq(s) == IF Len(s) > 0 THEN Some(s) ELSE None
OptMap(m) == IF m = <<>> THEN None ELSE Some(m)

SubmoduleToHash(s) ==
    [name |-> s.name, path |-> s.path, url |-> s.url,
     tags |-> OptSeq(s.tags),
     labels |-> OptMap(s.labels),
     annotations |-> OptMap(s.annotations),
     config |-> None]

FeatureToHash(f) ==
    [name |-> f.name, branchName |-> f.branchName, sourceSha |-> f.sourceSha,
     version |-> f.version, upstream |-> f.upstream,
     intermediate |-> None, tags |-> None]

ReleaseToHash(r) ==
    [name |-> r.name, branchName |-> r.branchName, sourceSha |-> r.sourceSha,
     version |-> r.version, upstream |-> r.upstream,
     intermediate |-> Some(r.intermediate), tags |-> None]

HotfixToHash(h) ==
    [name |-> h.name, branchName |-> h.branchName, sourceSha |-> h.sourceSha,
     version |-> h.version, upstream |-> h.upstream,
     intermediate |-> Some(h.intermediate), tags |-> None]

\* Mutant: the releases of a Support are emitted without the shadow filter.
SupportToHash_UnfilteredReleases(s) ==
    LET features == Visible(s.features)
        releases == s.releases
        hotfixes == Visible(s.hotfixes)
    IN  [name |-> s.name, masterBranchName |-> s.masterBranchName,
         developBranchName |-> s.developBranchName, sourceSha |-> s.sourceSha,
         developVersion |-> s.developVersion, masterVersion |-> s.masterVersion,
         upstream |-> s.upstream,
         features |-> IF Len(features) > 0 THEN Some(MapSeq(features, FeatureToHash)) ELSE None,
         releases |-> IF Len(releases) > 0 THEN Some(MapSeq(releases, ReleaseToHash)) ELSE None,
         hotfixes |-> IF Len(hotfixes) > 0 THEN Some(MapSeq(hotfixes, HotfixToHash)) ELSE None]

SupportToHash(s) ==
    LET features == Visible(s.features)
        releases == Visible(s.releases)
        hotfixes == Visible(s.hotfixes)
    IN  [name |-> s.name, masterBranchName |-> s.masterBranchName,
         developBranchName |-> s.developBranchName, sourceSha |-> s.sourceSha,
         developVersion |-> s.developVersion, masterVersion |-> s.masterVersion,
         upstream |-> s.upstream,
         features |-> IF Len(features) > 0 THEN Some(MapSeq(features, FeatureToHash)) ELSE None,
         releases |-> IF Len(releases) > 0 THEN Some(MapSeq(releases, ReleaseToHash)) ELSE None,
         hotfixes |-> IF Len(hotfixes) > 0 THEN Some(MapSeq(hotfixes, HotfixToHash)) ELSE None]

\* Mutant: the options are emitted also when the map is empty.
IntegrationToHash_AlwaysOptions(i) == [plugin |-> i.plugin, options |-> Some(i.options)]

IntegrationToHash(i) == [plugin |-> i.plugin, options |-> OptMap(i.options)]

TaggingToHash(t) == [name |-> t.name, annotation |-> t.annotation]

MessageTemplateToHash(m) == [name |-> m.name, message |-> m.message]

TagTemplateToHash(t) == [name |-> t.name, tag |-> t.tag, annotation |-> t.annotation]

\* Mutant: the stamp is written only when the tree declares no apiVersion.
ApiVersionToHash_KeepDeclared(c, stampApiVersion) ==
    IF stampApiVersion /\ c.apiVersion = None THEN Some(<<"v">> \o resolveApiVersion) ELSE c.apiVersion

\* apiVersion: stampApiVersion ? `v${resolveApiVersion()}` : this.apiVersion
ApiVersionToHash(c, stampApiVersion) ==
    IF stampApiVersion THEN Some(<<"v">> \o resolveApiVersion) ELSE c.apiVersion

ConfigToHash(c, stampApiVersion) ==
    LET submodules == Visible(c.submodules)
        features == Visible(c.features)
        releases == Visible(c.releases)
        hotfixes == Visible(c.hotfixes)
    IN  [apiVersion |-> ApiVersionToHash(c, stampApiVersion),
         identifier |-> c.identifier,
         managed |-> IF c.managed = FALSE THEN Some(c.managed) ELSE None,
         version |-> None,
         developVersion |-> c.developVersion,
         masterVersion |-> c.masterVersion,
         upstreams |-> OptSeq(c.upstreams),
         submodules |-> IF Len(submodules) > 0 THEN Some(MapSeq(submodules, SubmoduleToHash)) ELSE None,
         features |-> IF Len(features) > 0 THEN Some(MapSeq(features, FeatureToHash)) ELSE None,
         releases |-> IF Len(releases) > 0 THEN Some(MapSeq(releases, ReleaseToHash)) ELSE None,
         hotfixes |-> IF Len(hotfixes) > 0 THEN Some(MapSeq(hotfixes, HotfixToHash)) ELSE None,
         supports |-> IF Len(c.supports) > 0 THEN Some(MapSeq(c.supports, SupportToHash)) ELSE None,
         included |-> OptSeq(c.included),
         excluded |-> OptSeq(c.excluded),
         featureMessageTemplate |-> c.featureMessageTemplate,
         releaseMessageTemplate |-> c.releaseMessageTemplate,
         hotfixMessageTemplate |-> c.hotfixMessageTemplate,
         releaseTagTemplate |-> c.releaseTagTemplate,
         hotfixTagTemplate |-> c.hotfixTagTemplate,
         tags |-> OptSeq(c.tags),
         integrations |-> IF Len(c.integrations) > 0 THEN Some(MapSeq(c.integrations, IntegrationToHash)) ELSE None,
         commitMessageTemplates |-> IF Len(c.commitMessageTemplates) > 0 THEN Some(MapSeq(c.commitMessageTemplates, MessageTemplateToHash)) ELSE None,
         tagTemplates |-> IF Len(c.tagTemplates) > 0 THEN Some(MapSeq(c.tagTemplates, TagTemplateToHash)) ELSE None,
         masterBranchName |-> c.masterBranchName,
         developBranchName |-> c.developBranchName,
         dependencies |-> IF c.dependencies # None /\ Len(c.dependencies[1]) > 0 THEN Some(c.dependencies[1]) ELSE None,
         labels |-> OptMap(c.labels),
         annotations |-> OptMap(c.annotations)]

-----------------------------------------------------------------------------
(* Construction of a tree from a document (validate).  The constructors    *)
(* of the entity classes are not part of the source at hand; they are      *)
(* modelled from the data model: managed defaults to true, intermediate    *)
(* to false, an absent collection or map to the empty one, and no entry    *)
(* of a document is a shadow entry.                                        *)

OrEmpty(o) == IF o = None THEN <<>> ELSE o[1]

BuildTagging(d) == [name |-> d.name, annotation |-> d.annotation]

BuildFeature(d) ==
    [name |-> d.name, branchName |-> d.branchName, sourceSha |-> d.sourceSha,
     version |-> d.version, upstream |-> d.upstream,
     tags |-> MapSeq(OrEmpty(d.tags), BuildTagging),
     shadow |-> FALSE]

BuildRelease(d) ==
    [name |-> d.name, branchName |-> d.branchName, sourceSha |-> d.sourceSha,
     version |-> d.version, upstream |-> d.upstream,
     intermediate |-> IF d.intermediate = None THEN FALSE ELSE d.intermediate[1],
     tags |-> MapSeq(OrEmpty(d.tags), BuildTagging),
     shadow |-> FALSE]

BuildSupport(d) ==
    [name |-> d.name, masterBranchName |-> d.masterBranchName,
     developBranchName |-> d.developBranchName, sourceSha |-> d.sourceSha,
     developVersion |-> d.developVersion, masterVersion |-> d.masterVersion,
     upstream |-> d.upstream,
     features |-> MapSeq(OrEmpty(d.features), BuildFeature),
     releases |-> MapSeq(OrEmpty(d.releases), BuildRelease),
     hotfixes |-> MapSeq(OrEmpty(d.hotfixes), BuildRelease)]

BuildIntegration(d) == [plugin |-> d.plugin, options |-> OrEmpty(d.options)]

RECURSIVE BuildConfig(_)

BuildSubmodule(d) ==
    [name |-> d.name, path |-> d.path, url |-> d.url,
     tags |-> OrEmpty(d.tags),
     labels |-> OrEmpty(d.labels),
     annotations |-> OrEmpty(d.annotations),
     shadow |-> FALSE,
     config |-> IF d.config = None THEN None ELSE Some(BuildConfig(d.config[1]))]

BuildConfig(d) ==
    [apiVersion |-> d.apiVersion,
     identifier |-> d.identifier,
     managed |-> IF d.managed = None THEN TRUE ELSE d.managed[1],
     developVersion |-> d.developVersion,
     masterVersion |-> d.masterVersion,
     upstreams |-> OrEmpty(d.upstreams),
     submodules |-> MapSeq(OrEmpty(d.submodules), BuildSubmodule),
     features |-> MapSeq(OrEmpty(d.features), BuildFeature),
     releases |-> MapSeq(OrEmpty(d.releases), BuildRelease),
     hotfixes |-> MapSeq(OrEmpty(d.hotfixes), BuildRelease),
     supports |-> MapSeq(OrEmpty(d.supports), BuildSupport),
     included |-> OrEmpty(d.included),
     excluded |-> OrEmpty(d.excluded),
     featureMessageTemplate |-> d.featureMessageTemplate,
     releaseMessageTemplate |-> d.releaseMessageTemplate,
     hotfixMessageTemplate |-> d.hotfixMessageTemplate,
     releaseTagTemplate |-> d.releaseTagTemplate,
     hotfixTagTemplate |-> d.hotfixTagTemplate,
     tags |-> OrEmpty(d.tags),
     integrations |-> MapSeq(OrEmpty(d.integrations), BuildIntegration),
     commitMessageTemplates |-> OrEmpty(d.commitMessageTemplates),
     tagTemplates |-> OrEmpty(d.tagTemplates),
     masterBranchName |-> d.masterBranchName,
     developBranchName |-> d.developBranchName,
     dependencies |-> d.dependencies,
     labels |-> OrEmpty(d.labels),
     annotations |-> OrEmpty(d.annotations)]

-----------------------------------------------------------------------------
(* Hash engine, legacy shape (single version field, integrations, named    *)
(* template lists; no apiVersion, labels, dependencies or shadow entries). *)

\* String(value) of an option value, as in `key + '=' + this.options[key]`.
ToStringValue(v) == IF v.t = "s" THEN v.s ELSE Join(v.a)

LegacySubmoduleUpdateHash(s) == <<s.name, s.path>> \o FeedOpt(s.url) \o s.tags

LegacyFeatureUpdateHash(f) ==
    <<f.name, f.branchName, f.sourceSha>>
    \o FeedOpt(f.upstream)
    \o Flat(MapSeq(f.tags, TaggingUpdateHash))

LegacyReleaseUpdateHash(r) ==
    <<r.name, r.branchName, r.sourceSha>>
    \o FeedOpt(r.upstream)
    \o <<BoolToString(r.intermediate)>>
    \o Flat(MapSeq(r.tags, TaggingUpdateHash))

LegacySupportUpdateHash(s) ==
    <<s.name, s.masterBranchName, s.developBranchName, s.sourceSha>>
    \o FeedOpt(s.upstream)
    \o Flat(MapSeq(s.features, LegacyFeatureUpdateHash))
    \o Flat(MapSeq(s.releases, LegacyReleaseUpdateHash))
    \o Flat(MapSeq(s.hotfixes, LegacyReleaseUpdateHash))

LegacyOptionUpdateHash(e) == e.k \o <<"=">> \o ToStringValue(e.v)

LegacyIntegrationUpdateHash(i) == <<i.plugin>> \o MapSeq(i.options, LegacyOptionUpdateHash)

LegacyConfigUpdateHash(c) ==
    G("identifier", <<c.identifier>>)
    \o G("managed", IF ~c.managed THEN <<UNMANAGED>> ELSE <<>>)
    \o G("version", FeedOpt(c.version))
    \o G("upstreams", Flat(MapSeq(c.upstreams, UpstreamUpdateHash)))
    \o G("included", c.included)
    \o G("excluded", c.excluded)
    \o G("submodules", Flat(MapSeq(c.submodules, LegacySubmoduleUpdateHash)))
    \o G("features", Flat(MapSeq(c.features, LegacyFeatureUpdateHash)))
    \o G("releases", Flat(MapSeq(c.releases, LegacyReleaseUpdateHash)))
    \o G("hotfixes", Flat(MapSeq(c.hotfixes, LegacyReleaseUpdateHash)))
    \o G("supports", Flat(MapSeq(c.supports, LegacySupportUpdateHash)))
    \o G("templates", FeedOpt(c.featureMessageTemplate)
                      \o FeedOpt(c.releaseMessageTemplate)
                      \o FeedOpt(c.hotfixMessageTemplate)
                      \o FeedOpt(c.releaseTagTemplate)
                      \o FeedOpt(c.hotfixTagTemplate))
    \o G("tags", c.tags)
    \o G("integrations", Flat(MapSeq(c.integrations, LegacyIntegrationUpdateHash)))
    \o G("commitMessageTemplates", Flat(MapSeq(c.commitMessageTemplates, MessageTemplateUpdateHash)))
    \o G("tagTemplates", Flat(MapSeq(c.tagTemplates, TagTemplateUpdateHash)))

\* The legacy tree of a document: the fields the legacy schema declares.
LegacyBuildConfig(d) ==
    [identifier |-> d.identifier,
     managed |-> IF d.managed = None THEN TRUE ELSE d.managed[1],
     version |-> d.version,
     upstreams |-> OrEmpty(d.upstreams),
     submodules |-> MapSeq(OrEmpty(d.submodules), BuildSubmodule),
     features |-> MapSeq(OrEmpty(d.features), BuildFeature),
     releases |-> MapSeq(OrEmpty(d.releases), BuildRelease),
     hotfixes |-> MapSeq(OrEmpty(d.hotfixes), BuildRelease),
     supports |-> MapSeq(OrEmpty(d.supports), BuildSupport),
     included |-> OrEmpty(d.included),
     excluded |-> OrEmpty(d.excluded),
     featureMessageTemplate |-> d.featureMessageTemplate,
     releaseMessageTemplate |-> d.releaseMessageTemplate,
     hotfixMessageTemplate |-> d.hotfixMessageTemplate,
     releaseTagTemplate |-> d.releaseTagTemplate,
     hotfixTagTemplate |-> d.hotfixTagTemplate,
     tags |-> OrEmpty(d.tags),
     integrations |-> MapSeq(OrEmpty(d.integrations), BuildIntegration),
     commitMessageTemplates |-> OrEmpty(d.commitMessageTemplates),
     tagTemplates |-> OrEmpty(d.tagTemplates)]

\* A document that uses only the fields of the legacy schema.
LegacyEntryShape(e) == e.version = None
LegacySupportShape(s) ==
    /\ s.developVersion = None /\ s.masterVersion = None
    /\ \A i \in 1..Len(OrEmpty(s.features)) : LegacyEntryShape(s.features[1][i])
    /\ \A i \in 1..Len(OrEmpty(s.releases)) : LegacyEntryShape(s.releases[1][i])
    /\ \A i \in 1..Len(OrEmpty(s.hotfixes)) : LegacyEntryShape(s.hotfixes[1][i])
LegacySubmoduleShape(s) == s.labels = None /\ s.annotations = None
IsLegacyShape(d) ==
    /\ d.apiVersion = None /\ d.developVersion = None /\ d.masterVersion = None
    /\ d.masterBranchName = None /\ d.developBranchName = None
    /\ d.dependencies = None /\ d.labels = None /\ d.annotations = None
    /\ \A i \in 1..Len(OrEmpty(d.submodules)) : LegacySubmoduleShape(d.submodules[1][i])
    /\ \A i \in 1..Len(OrEmpty(d.features)) : LegacyEntryShape(d.features[1][i])
    /\ \A i \in 1..Len(OrEmpty(d.releases)) : LegacyEntryShape(d.releases[1][i])
    /\ \A i \in 1..Len(OrEmpty(d.hotfixes)) : LegacyEntryShape(d.hotfixes[1][i])
    /\ \A i \in 1..Len(OrEmpty(d.supports)) : LegacySupportShape(d.supports[1][i])

-----------------------------------------------------------------------------
(* Bounds and the values trees are made of *)

MaxEntries == 2     \* fields set and entries added while a tree is constructed
MaxShadow == 1      \* shadow entries added to the second tree

Ids == {sA}
ScalarVals == {sE, sA}
ItemVals == {sA, sAA}

ScalarFields ==
    {"apiVersion", "developVersion", "masterVersion",
     "featureMessageTemplate", "releaseMessageTemplate", "hotfixMessageTemplate",
     "releaseTagTemplate", "hotfixTagTemplate",
     "masterBranchName", "developBranchName"}

\* The ordered collections of a Config that are plain arrays on the tree.
SeqFields ==
    {"upstreams", "submodules", "features", "releases", "hotfixes", "supports",
     "included", "excluded", "tags", "integrations",
     "commitMessageTemplates", "tagTemplates"}

ShadowFields == {"submodules", "features", "releases", "hotfixes"}
BranchFields == {"features", "releases", "hotfixes"}

Tagging(n, a) == [name |-> n, annotation |-> a]

Feature(n, v, u, t) ==
    [name |-> n, branchName |-> sA, sourceSha |-> sA,
     version |-> v, upstream |-> u, tags |-> t, shadow |-> FALSE]

Release(n, v, u, i, t) ==
    [name |-> n, branchName |-> sA, sourceSha |-> sA,
     version |-> v, upstream |-> u, intermediate |-> i, tags |-> t, shadow |-> FALSE]

Support(n, dv, mv, u) ==
    [name |-> n, masterBranchName |-> sA, developBranchName |-> sA, sourceSha |-> sA,
     developVersion |-> dv, masterVersion |-> mv, upstream |-> u,
     features |-> <<>>, releases |-> <<>>, hotfixes |-> <<>>]

EmptyConfig(id, m) ==
    [apiVersion |-> None, identifier |-> id, managed |-> m,
     developVersion |-> None, masterVersion |-> None,
     upstreams |-> <<>>, submodules |-> <<>>, features |-> <<>>, releases |-> <<>>,
     hotfixes |-> <<>>, supports |-> <<>>, included |-> <<>>, excluded |-> <<>>,
     featureMessageTemplate |-> None, releaseMessageTemplate |-> None,
     hotfixMessageTemplate |-> None, releaseTagTemplate |-> None,
     hotfixTagTemplate |-> None,
     tags |-> <<>>, integrations |-> <<>>, commitMessageTemplates |-> <<>>,
     tagTemplates |-> <<>>, masterBranchName |-> None, developBranchName |-> None,
     dependencies |-> None, labels |-> <<>>, annotations |-> <<>>]

Submodule(n, u, t, l, a, c) ==
    [name |-> n, path |-> sA, url |-> u, tags |-> t, labels |-> l, annotations |-> a,
     shadow |-> FALSE, config |-> c]

FeatureSet ==
    {Feature(sA, None, None, <<>>),
     Feature(sAA, Some(sA), Some(sA), <<Tagging(sA, Some(sA))>>)}

ReleaseSet ==
    {Release(sA, None, None, FALSE, <<>>),
     Release(sAA, Some(sA), Some(sA), TRUE, <<Tagging(sA, None)>>)}

SupportSet ==
    {Support(sA, None, None, None),
     Support(sAA, Some(sA), Some(sA), Some(sA))}

SubmoduleSet ==
    {Submodule(sA, None, <<>>, <<>>, <<>>, None),
     Submodule(sAA, Some(sA), <<sA>>, <<Entry(sA, JStr(sA))>>, <<Entry(sA, JStr(sA))>>, None),
     Submodule(sB, None, <<>>, <<>>, <<>>, Some(EmptyConfig(sB, TRUE)))}

IntegrationSet ==
    {[plugin |-> sA, options |-> <<>>],
     [plugin |-> sAA, options |-> <<Entry(sA, JStr(sA))>>]}

Elements(f) ==
    CASE f = "upstreams" -> {[name |-> sA, url |-> sA], [name |-> sAA, url |-> sA]}
      [] f = "submodules" -> SubmoduleSet
      [] f = "features" -> FeatureSet
      [] f = "releases" -> ReleaseSet
      [] f = "hotfixes" -> ReleaseSet
      [] f = "supports" -> SupportSet
      [] f \in {"included", "excluded", "tags"} -> ItemVals
      [] f = "integrations" -> IntegrationSet
      [] f = "commitMessageTemplates" -> {[name |-> sA, message |-> sA], [name |-> sAA, message |-> sA]}
      [] f = "tagTemplates" -> {[name |-> sA, tag |-> sA, annotation |-> None],
                                [name |-> sAA, tag |-> sA, annotation |-> Some(sA)]}

DependencySet == {DepStr(sA), DepStr(sAA), DepMap(<<Entry(sA, JStr(sA))>>)}
LabelSet == {Entry(sA, JStr(sA)), Entry(sB, JArr(<<sA, sAA>>))}
AnnotationSet == {Entry(sA, JStr(sA)), Entry(sB, JStr(sAA))}

RECURSIVE SumLen(_, _)
SumLen(c, fs) ==
    IF fs = {} THEN 0
    ELSE LET f == CHOOSE x \in fs : TRUE IN Len(c[f]) + SumLen(c, fs \ {f})

RECURSIVE SupportEntries(_)
SupportEntries(ss) ==
    IF ss = <<>> THEN 0 ELSE SumLen(Head(ss), BranchFields) + SupportEntries(Tail(ss))

\* What was set or added to reach the tree from the empty Config.
Size(c) ==
    Cardinality({f \in ScalarFields : c[f] # None})
    + SumLen(c, SeqFields \cup {"labels", "annotations"})
    + SupportEntries(c.supports)
    + Len(OrEmpty(c.dependencies))

ShadowCount(c) ==
    Len(c.submodules) - Len(Visible(c.submodules))
    + Len(c.features) - Len(Visible(c.features))
    + Len(c.releases) - Len(Visible(c.releases))
    + Len(c.hotfixes) - Len(Visible(c.hotfixes))
    + Len(c.supports) * 0
    + SupportEntries(c.supports)
    - SupportEntries(MapSeq(c.supports,
          LAMBDA s : [s EXCEPT !.features = Visible(@), !.releases = Visible(@), !.hotfixes = Visible(@)]))

Keys(m) == {m[i].k : i \in 1..Len(m)}

InsertAt(s, pos, e) == SubSeq(s, 1, pos - 1) \o <<e>> \o SubSeq(s, pos, Len(s))

SwapAt(s, i, j) == [s EXCEPT ![i] = s[j], ![j] = s[i]]

-----------------------------------------------------------------------------
(* Construction of the tree: fields are set once, before the tree is used *)

Init ==
    /\ phase = "construct"
    /\ \E id \in Ids, m \in BOOLEAN : tree = EmptyConfig(id, m)
    /\ fed = None
    /\ docs = [st \in BOOLEAN |-> None]
    /\ other = None
    /\ rel = "none"
    /\ raw = None
    /\ swapped = None
    /\ fedOther = None
    /\ docOther = None
    /\ fedLegacy = None
    /\ call = None
    /\ outcome = None
    /\ runs = None

Constructing == phase = "construct" /\ Size(tree) < MaxEntries
Results == <<fed, docs, other, rel, raw, swapped, fedOther, docOther, fedLegacy>>

SetScalar(f, v) ==
    /\ Constructing
    /\ tree[f] = None
    /\ tree' = [tree EXCEPT ![f] = Some(v)]
    /\ UNCHANGED <<phase, Results, call, outcome, runs>>

AppendTo(f, e) ==
    /\ Constructing
    /\ tree' = [tree EXCEPT ![f] = Append(@, e)]
    /\ UNCHANGED <<phase, Results, call, outcome, runs>>

AppendToSupport(i, f, e) ==
    /\ Constructing
    /\ tree' = [tree EXCEPT !.supports[i][f] = Append(@, e)]
    /\ UNCHANGED <<phase, Results, call, outcome, runs>>

AddDependency(d) ==
    /\ Constructing
    /\ tree' = [tree EXCEPT !.dependencies = Some(Append(OrEmpty(@), d))]
    /\ UNCHANGED <<phase, Results, call, outcome, runs>>

AddLabel(e) ==
    /\ Constructing
    /\ e.k \notin Keys(tree.labels)
    /\ tree' = [tree EXCEPT !.labels = Append(@, e)]
    /\ UNCHANGED <<phase, Results, call, outcome, runs>>

AddAnnotation(e) ==
    /\ Constructing
    /\ e.k \notin Keys(tree.annotations)
    /\ tree' = [tree EXCEPT !.annotations = Append(@, e)]
    /\ UNCHANGED <<phase, Results, call, outcome, runs>>

\* Construction ends; from here on no field of the tree is assigned.
Freeze ==
    /\ phase = "construct"
    /\ phase' = "built"
    /\ UNCHANGED <<tree, Results, call, outcome, runs>>

-----------------------------------------------------------------------------
(* Operations on the constructed tree *)

\* calculateHash(): a fresh hash object, updateHash, digest.
CalculateHash ==
    /\ phase = "built"
    /\ fed' = Some(ConfigUpdateHash(tree))
    /\ phase' = "hashed"
    /\ UNCHANGED <<tree, docs, other, rel, raw, swapped, fedOther, docOther, fedLegacy, call, outcome, runs>>

\* Mutant: toHash drops the shadow entries from the arrays of the tree
\* (an in-place filter) instead of filtering copies of them.
ToHash_FiltersTree(st) ==
    /\ \/ st = FALSE /\ phase = "hashed" /\ phase' = "canon"
       \/ st = TRUE /\ phase = "canon" /\ phase' = "stamped"
    /\ docs' = [docs EXCEPT ![st] = Some(ConfigToHash(tree, st))]
    /\ tree' = [tree EXCEPT !.submodules = Visible(@), !.features = Visible(@),
                            !.releases = Visible(@), !.hotfixes = Visible(@)]
    /\ UNCHANGED <<fed, other, rel, raw, swapped, fedOther, docOther, fedLegacy, call, outcome, runs>>

\* toHash(stampApiVersion)
ToHash(st) ==
    /\ \/ st = FALSE /\ phase = "hashed" /\ phase' = "canon"
       \/ st = TRUE /\ phase = "canon" /\ phase' = "stamped"
    /\ docs' = [docs EXCEPT ![st] = Some(ConfigToHash(tree, st))]
    /\ UNCHANGED <<tree, fed, other, rel, raw, swapped, fedOther, docOther, fedLegacy, call, outcome, runs>>

\* The documents handed to validation: a canonical document of the tree, as
\* returned or with its managed key rewritten.
Candidates ==
    {docs[FALSE][1], docs[TRUE][1]}
    \cup {[docs[FALSE][1] EXCEPT !.managed = m] : m \in {None, Some(TRUE), Some(FALSE)}}

Validate(d) ==
    /\ phase = "stamped"
    /\ raw' = Some(d)
    /\ other' = Some(BuildConfig(d))
    /\ rel' = "validated"
    /\ phase' = "derived"
    /\ UNCHANGED <<tree, fed, docs, swapped, fedOther, docOther, fedLegacy, call, outcome, runs>>

ShadowBase == IF other = None THEN tree ELSE other[1]
CanAddShadow ==
    /\ \/ phase = "stamped"
       \/ phase = "derived" /\ rel = "shadow"
    /\ ShadowCount(ShadowBase) < MaxShadow

\* A second tree with one more shadow entry in a collection of the Config.
AddShadow(f, pos, e) ==
    /\ CanAddShadow
    /\ other' = Some([ShadowBase EXCEPT ![f] = InsertAt(@, pos, [e EXCEPT !.shadow = TRUE])])
    /\ rel' = "shadow"
    /\ phase' = "derived"
    /\ UNCHANGED <<tree, fed, docs, raw, swapped, fedOther, docOther, fedLegacy, call, outcome, runs>>

\* A second tree with one more shadow entry in a collection of a Support.
AddShadowToSupport(i, f, pos, e) ==
    /\ CanAddShadow
    /\ other' = Some([ShadowBase EXCEPT !.supports[i][f] = InsertAt(@, pos, [e EXCEPT !.shadow = TRUE])])
    /\ rel' = "shadow"
    /\ phase' = "derived"
    /\ UNCHANGED <<tree, fed, docs, raw, swapped, fedOther, docOther, fedLegacy, call, outcome, runs>>

\* A second tree with two entries of one collection exchanged.
Swap(f, i, j) ==
    /\ phase = "stamped"
    /\ other' = Some([tree EXCEPT ![f] = SwapAt(@, i, j)])
    /\ rel' = "swap"
    /\ swapped' = <<f, i, j>>
    /\ phase' = "derived"
    /\ UNCHANGED <<tree, fed, docs, raw, fedOther, docOther, fedLegacy, call, outcome, runs>>

SwapDependencies(i, j) ==
    /\ phase = "stamped"
    /\ other' = Some([tree EXCEPT !.dependencies = Some(SwapAt(@[1], i, j))])
    /\ rel' = "swap"
    /\ swapped' = <<"dependencies", i, j>>
    /\ phase' = "derived"
    /\ UNCHANGED <<tree, fed, docs, raw, fedOther, docOther, fedLegacy, call, outcome, runs>>

CalculateHashOther ==
    /\ phase = "derived"
    /\ fedOther' = Some(ConfigUpdateHash(other[1]))
    /\ phase' = "otherHashed"
    /\ UNCHANGED <<tree, fed, docs, other, rel, raw, swapped, docOther, fedLegacy, call, outcome, runs>>

ToHashOther ==
    /\ phase = "otherHashed"
    /\ docOther' = Some(ConfigToHash(other[1], FALSE))
    /\ phase' = "otherCanon"
    /\ UNCHANGED <<tree, fed, docs, other, rel, raw, swapped, fedOther, fedLegacy, call, outcome, runs>>

\* The legacy registry on the same document: legacy tree, legacy calculateHash.
LegacyCalculateHash ==
    /\ phase = "otherCanon"
    /\ rel = "validated"
    /\ IsLegacyShape(raw[1])
    /\ fedLegacy' = Some(LegacyConfigUpdateHash(LegacyBuildConfig(raw[1])))
    /\ phase' = "legacyHashed"
    /\ UNCHANGED <<tree, fed, docs, other, rel, raw, swapped, fedOther, docOther, call, outcome, runs>>

Next ==
    \/ \E f \in ScalarFields, v \in ScalarVals : SetScalar(f, v)
    \/ \E f \in SeqFields : \E e \in Elements(f) : AppendTo(f, e)
    \/ \E i \in 1..Len(tree.supports), f \in BranchFields : \E e \in Elements(f) : AppendToSupport(i, f, e)
    \/ \E d \in DependencySet : AddDependency(d)
    \/ \E e \in LabelSet : AddLabel(e)
    \/ \E e \in AnnotationSet : AddAnnotation(e)
    \/ Freeze
    \/ CalculateHash
    \/ \E st \in BOOLEAN : ToHash(st)
    \/ \E d \in (IF phase = "stamped" THEN Candidates ELSE {}) : Validate(d)
    \/ \E f \in ShadowFields : \E pos \in 1..(Len(ShadowBase[f]) + 1), e \in Elements(f) : AddShadow(f, pos, e)
    \/ \E i \in 1..Len(ShadowBase.supports), f \in BranchFields :
           \E pos \in 1..(Len(ShadowBase.supports[i][f]) + 1), e \in Elements(f) : AddShadowToSupport(i, f, pos, e)
    \/ \E f \in SeqFields : \E i, j \in 1..Len(tree[f]) : i < j /\ Swap(f, i, j)
    \/ \E i, j \in 1..Len(OrEmpty(tree.dependencies)) : i < j /\ SwapDependencies(i, j)
    \/ CalculateHashOther
    \/ ToHashOther
    \/ LegacyCalculateHash

Spec == Init /\ [][Next]_vars

-----------------------------------------------------------------------------
(* Version resolution (resolveVersion, resolveApiVersion).  Semver.clean is *)
(* modelled on strings without '-' and '+', that is, without prerelease and *)
(* build parts.                                                             *)

RECURSIVE TrimStart(_)
TrimStart(s) == IF s # <<>> /\ Head(s) = " " THEN TrimStart(Tail(s)) ELSE s

RECURSIVE TrimEnd(_)
TrimEnd(s) == IF s # <<>> /\ s[Len(s)] = " " THEN TrimEnd(SubSeq(s, 1, Len(s) - 1)) ELSE s

\* String.prototype.trim
Trim(s) == TrimEnd(TrimStart(s))

\* replace(/^[=v]+/, '')
RECURSIVE StripEqV(_)
StripEqV(s) == IF s # <<>> /\ Head(s) \in {"=", "v"} THEN StripEqV(Tail(s)) ELSE s

\* A numeric identifier of the strict grammar: 0|[1-9]\d*
IsNumericId(n) ==
    /\ n # <<>>
    /\ \A k \in 1..Len(n) : n[k] \in Digits
    /\ ~(Len(n) > 1 /\ n[1] = "0")

\* The strict grammar without prerelease and build: an optional v, then
\* three numeric identifiers separated by dots.
IsFullVersion(s) ==
    LET t == IF s # <<>> /\ Head(s) = "v" THEN Tail(s) ELSE s
    IN  \E i, j \in 1..Len(t) :
            /\ i < j
            /\ t[i] = "." /\ t[j] = "."
            /\ IsNumericId(SubSeq(t, 1, i - 1))
            /\ IsNumericId(SubSeq(t, i + 1, j - 1))
            /\ IsNumericId(SubSeq(t, j + 1, Len(t)))

\* Semver.clean: trim, strip the leading '=' and 'v', parse strictly (the
\* parser trims once more); the version parsed, or null.
SemverClean(s) ==
    LET t == Trim(StripEqV(Trim(s)))
    IN  IF IsFullVersion(t) THEN Some(t) ELSE None

Return(v) == [kind |-> "return", value |-> v]

\* new Error(`Version "${raw}" is not a valid semver format`)
VersionError(r) ==
    [kind |-> "throw", error |-> "Error",
     message |-> <<"Version \"">> \o r \o <<"\" is not a valid semver format">>]

\* The body shared by every resolveVersion, from the field it has selected.
ResolveSelected(currentVersion) ==
    IF ~Truthy(currentVersion) THEN Return(None)
    ELSE LET version == SemverClean(currentVersion[1])
         IN  IF version = None THEN VersionError(currentVersion[1])
             ELSE Return(version)

\* The parameter type: 'develop' | 'master' = 'develop'
DefaultType(type) == IF type = None THEN "develop" ELSE type[1]

\* Mutant: without an argument the master version is selected.
ConfigResolveVersion_DefaultMaster(c, type) ==
    ResolveSelected(IF type = Some("develop") THEN c.developVersion ELSE c.masterVersion)

ConfigResolveVersion(c, type) ==
    ResolveSelected(IF DefaultType(type) = "develop" THEN c.developVersion ELSE c.masterVersion)

SupportResolveVersion(s, type) ==
    ResolveSelected(IF DefaultType(type) = "develop" THEN s.developVersion ELSE s.masterVersion)

FeatureResolveVersion(f) == ResolveSelected(f.version)
ReleaseResolveVersion(r) == ResolveSelected(r.version)
HotfixResolveVersion(h) == ResolveSelected(h.version)

DEFAULT_API_VERSION == <<"v", "0", ".", "0">>

\* Mutant: an absent apiVersion is not replaced by 'v0.0'.
ConfigResolveApiVersion_NoDefault(c) ==
    LET declared == OrEmpty(c.apiVersion)
        version == SemverCoerce(declared)
    IN  IF version = None THEN VersionError(declared) ELSE Return(version[1])

\* ConfigBase.resolveApiVersion
ConfigResolveApiVersion(c) ==
    LET declared == IF c.apiVersion = None THEN DEFAULT_API_VERSION ELSE c.apiVersion[1]
        version == SemverCoerce(declared)
    IN  IF version = None THEN VersionError(declared) ELSE Return(version[1])

\* Version strings given to the trees below.
vPlain == <<"1", ".", "2", ".", "3">>
vPrefixed == <<"v", "1", ".", "2", ".", "3">>
vSpaced == <<" ", "=", "1", ".", "0", ".", "0", " ">>
vShort == <<"1", ".", "2">>
vPadded == <<"0", "1", ".", "2", ".", "3">>
vGarbage == <<"g", "a", "r", "b", "a", "g", "e">>

VersionVals == {vPlain, vPrefixed, vSpaced, vShort, vPadded, vGarbage, sE}
OptVersions == {None} \cup {Some(v) : v \in VersionVals}
ApiVersionVals == {API_VERSION, vPlain, <<"v", "2">>, vGarbage, sE}
OptApiVersions == {None} \cup {Some(v) : v \in ApiVersionVals}
Types == {None, Some("develop"), Some("master")}

\* Trees that declare versions: on the Config, on a Support or on a branch.
VersionTrees ==
    {[EmptyConfig(sA, TRUE) EXCEPT !.apiVersion = a, !.developVersion = dv, !.masterVersion = mv] :
        a \in {None, Some(API_VERSION)}, dv \in OptVersions, mv \in OptVersions}
    \cup {[EmptyConfig(sA, TRUE) EXCEPT !.apiVersion = a] : a \in OptApiVersions}
    \cup {[EmptyConfig(sA, TRUE) EXCEPT !.supports = <<Support(sA, dv, mv, None)>>] :
        dv \in OptVersions, mv \in OptVersions}
    \cup {[EmptyConfig(sA, TRUE) EXCEPT !.features = <<Feature(sA, v, None, <<>>)>>,
                                        !.releases = <<Release(sA, v, None, FALSE, <<>>)>>,
                                        !.hotfixes = <<Release(sA, w, None, TRUE, <<>>)>>] :
        v \in OptVersions, w \in OptVersions}

InitVersion ==
    /\ phase = "built"
    /\ tree \in VersionTrees
    /\ fed = None
    /\ docs = [st \in BOOLEAN |-> None]
    /\ other = None
    /\ rel = "none"
    /\ raw = None
    /\ swapped = None
    /\ fedOther = None
    /\ docOther = None
    /\ fedLegacy = None
    /\ call = None
    /\ outcome = None
    /\ runs = None

Untouched == <<phase, tree, Results, runs>>

\* One resolver is called on the tree or on one of its entries; hashing and
\* serializing go on before and after.
ResolveVersion(type) ==
    /\ call = None
    /\ call' = Some([op |-> "resolveVersion", on |-> "config", at |-> 0, type |-> type])
    /\ outcome' = Some(ConfigResolveVersion(tree, type))
    /\ UNCHANGED Untouched

ResolveSupportVersion(i, type) ==
    /\ call = None
    /\ call' = Some([op |-> "resolveVersion", on |-> "supports", at |-> i, type |-> type])
    /\ outcome' = Some(SupportResolveVersion(tree.supports[i], type))
    /\ UNCHANGED Untouched

ResolveFeatureVersion(i) ==
    /\ call = None
    /\ call' = Some([op |-> "resolveVersion", on |-> "features", at |-> i, type |-> None])
    /\ outcome' = Some(FeatureResolveVersion(tree.features[i]))
    /\ UNCHANGED Untouched

ResolveReleaseVersion(i) ==
    /\ call = None
    /\ call' = Some([op |-> "resolveVersion", on |-> "releases", at |-> i, type |-> None])
    /\ outcome' = Some(ReleaseResolveVersion(tree.releases[i]))
    /\ UNCHANGED Untouched

ResolveHotfixVersion(i) ==
    /\ call = None
    /\ call' = Some([op |-> "resolveVersion", on |-> "hotfixes", at |-> i, type |-> None])
    /\ outcome' = Some(HotfixResolveVersion(tree.hotfixes[i]))
    /\ UNCHANGED Untouched

ResolveApiVersion ==
    /\ call = None
    /\ call' = Some([op |-> "resolveApiVersion", on |-> "config", at |-> 0, type |-> None])
    /\ outcome' = Some(ConfigResolveApiVersion(tree))
    /\ UNCHANGED Untouched

NextVersion ==
    \/ CalculateHash
    \/ \E st \in BOOLEAN : ToHash(st)
    \/ \E type \in Types : ResolveVersion(type)
    \/ \E i \in 1..Len(tree.supports), type \in Types : ResolveSupportVersion(i, type)
    \/ \E i \in 1..Len(tree.features) : ResolveFeatureVersion(i)
    \/ \E i \in 1..Len(tree.releases) : ResolveReleaseVersion(i)
    \/ \E i \in 1..Len(tree.hotfixes) : ResolveHotfixVersion(i)
    \/ ResolveApiVersion

SpecVersion == InitVersion /\ [][NextVersion]_vars

-----------------------------------------------------------------------------
(* References (parseConfigReference, parseElementUri).  A URI is a sequence *)
(* of lexemes: a word of letters and digits, the separator "://" or the     *)
(* separator "/"; no word holds a ':' or a '/', so that splitting the       *)
(* lexemes splits the characters.                                           *)

SEP == "://"
SLASH == "/"

Words ==
    {"config", "file", "branch", "http", "https", "glfs",
     "feature", "release", "hotfix", "support", "repo", "ftp",
     "a", "b", "host1", "ns1", "cfgname", "sup1", "x"}

LetterWords == {"a", "b", "x"}

Positions(s, sep) == {i \in 1..Len(s) : s[i] = sep}

First(S) == CHOOSE i \in S : \A j \in S : i <= j

\* String.prototype.split(sep): the pieces between the separators.
RECURSIVE Split(_, _)
Split(s, sep) ==
    IF Positions(s, sep) = {} THEN <<s>>
    ELSE LET i == First(Positions(s, sep))
         IN  <<SubSeq(s, 1, i - 1)>> \o Split(SubSeq(s, i + 1, Len(s)), sep)

RECURSIVE SkipSlashes(_)
SkipSlashes(s) == IF s # <<>> /\ Head(s) = SLASH THEN SkipSlashes(Tail(s)) ELSE s

\* Zod.string().url(): the string parses as a URL.  A scheme and "://" come
\* first; http, https and ftp need a host; a file host may be empty or a
\* drive letter; any other scheme takes an opaque host, which may be empty,
\* and a ':' never starts the authority.
IsUrl(u) ==
    /\ Len(u) >= 2
    /\ u[1] \in Words
    /\ u[2] = SEP
    /\ LET rest == SubSeq(u, 3, Len(u))
       IN  CASE u[1] \in {"http", "https", "ftp"} ->
                    LET r == SkipSlashes(rest) IN r # <<>> /\ r[1] \in Words
             [] u[1] = "file" ->
                    \/ rest = <<>>
                    \/ rest[1] = SLASH
                    \/ /\ rest[1] \in Words
                       /\ \/ Len(rest) = 1
                          \/ rest[2] = SLASH
                          \/ rest[2] = SEP /\ rest[1] \in LetterWords
             [] OTHER -> rest = <<>> \/ rest[1] # SEP

ZodError(code, path) == [kind |-> "throw", error |-> "ZodError", code |-> code, path |-> path]

ConfigProtocols == {"config", "file", "branch", "http", "https", "glfs"}
ElementTypes == {"feature", "release", "hotfix", "support"}

\* The transform of ConfigUriSchema and ElementUriSchema: split at "://",
\* check the first piece against the literals and the second for a string.
UriSchemaParse(value, literals, key) ==
    IF ~IsUrl(value) THEN ZodError("invalid_string", "")
    ELSE LET parts == Split(value, SEP)
         IN  IF parts[1] \notin {<<w>> : w \in literals} THEN ZodError("invalid_union", key)
             ELSE IF Len(parts) < 2 THEN ZodError("invalid_type", "qualifier")
             ELSE Return([head |-> parts[1][1], qualifier |-> parts[2]])

ConfigUriSchemaParse(value) == UriSchemaParse(value, ConfigProtocols, "protocol")
ElementUriSchemaParse(value) == UriSchemaParse(value, ElementTypes, "type")

Reference(type, fields) ==
    [type |-> type,
     path |-> IF "path" \in DOMAIN fields THEN Some(fields.path) ELSE None,
     branchName |-> IF "branchName" \in DOMAIN fields THEN Some(fields.branchName) ELSE None,
     protocol |-> IF "protocol" \in DOMAIN fields THEN Some(fields.protocol) ELSE None,
     url |-> IF "url" \in DOMAIN fields THEN Some(fields.url) ELSE None,
     hostname |-> IF "hostname" \in DOMAIN fields THEN Some(fields.hostname) ELSE None,
     namespace |-> IF "namespace" \in DOMAIN fields THEN Some(fields.namespace) ELSE None,
     name |-> IF "name" \in DOMAIN fields THEN Some(fields.name) ELSE None,
     support |-> IF "support" \in DOMAIN fields THEN Some(fields.support) ELSE None]

\* new Error(`GLFS Uri invalid [${uri}]`)
GlfsError(uri) ==
    [kind |-> "throw", error |-> "Error",
     message |-> <<"GLFS Uri invalid [">> \o uri \o <<"]">>]

\* new Error(`Unsupported config protocol ${protocol}`)
UnsupportedError(protocol) ==
    [kind |-> "throw", error |-> "Error",
     message |-> <<"Unsupported config protocol ", protocol>>]

\* The glfs branch of parseConfigReference.
GlfsReference(uri, qualifier) ==
    LET parts == Split(qualifier, SLASH)
    IN  IF Len(parts) = 4
        THEN Return(Reference("glfs", [hostname |-> parts[1], namespace |-> parts[2],
                                       name |-> parts[3], support |-> parts[4]]))
        ELSE IF Len(parts) = 3
        THEN Return(Reference("glfs", [hostname |-> parts[1], namespace |-> parts[2], name |-> parts[3]]))
        ELSE IF Len(parts) = 2
        THEN Return(Reference("glfs", [namespace |-> parts[1], name |-> parts[2]]))
        ELSE GlfsError(uri)

parseConfigReference(uri) ==
    LET parsed == ConfigUriSchemaParse(uri)
    IN  IF parsed.kind = "throw" THEN parsed
        ELSE LET protocol == parsed.value.head
                 qualifier == parsed.value.qualifier
             IN  IF protocol = "config" THEN Return(Reference(protocol, <<>>))
                 ELSE IF protocol = "file" THEN Return(Reference(protocol, [path |-> qualifier]))
                 ELSE IF protocol = "branch" THEN Return(Reference(protocol, [branchName |-> qualifier]))
                 ELSE IF protocol = "http" \/ protocol = "https"
                 THEN Return(Reference("http", [protocol |-> protocol, url |-> qualifier]))
                 ELSE IF protocol = "glfs" THEN GlfsReference(uri, qualifier)
                 ELSE UnsupportedError(protocol)

parseElementUri(uri) ==
    LET parsed == ElementUriSchemaParse(uri)
    IN  IF parsed.kind = "throw" THEN parsed
        ELSE Return([type |-> parsed.value.head, qualifier |-> parsed.value.qualifier])

\* The URIs parsed below: every scheme with every qualifier, and three
\* strings that are not URLs.
Qualifiers ==
    {<<>>,
     <<"a">>,
     <<"ns1", SLASH, "cfgname">>,
     <<"host1", SLASH, "ns1", SLASH, "cfgname">>,
     <<"host1", SLASH, "ns1", SLASH, "cfgname", SLASH, "sup1">>,
     <<"host1", SLASH, "ns1", SLASH, "cfgname", SLASH, "sup1", SLASH, "x">>,
     <<"a", SEP, "b">>,
     <<"a", SLASH, "b", SEP, "x">>,
     <<"a", SLASH, "b", SLASH, "x", SEP, "b">>,
     <<SLASH, "a">>,
     <<"a", SLASH>>,
     <<"a", SLASH, SLASH, "b">>,
     <<SEP, "a">>}

Schemes == ConfigProtocols \cup ElementTypes \cup {"repo", "ftp"}

Uris ==
    {<<p, SEP>> \o q : p \in Schemes, q \in Qualifiers}
    \cup {<<>>, <<"a">>, <<"glfs", SLASH, "a">>}

InitUri ==
    /\ phase = "idle"
    /\ tree = EmptyConfig(sA, TRUE)
    /\ fed = None
    /\ docs = [st \in BOOLEAN |-> None]
    /\ other = None
    /\ rel = "none"
    /\ raw = None
    /\ swapped = None
    /\ fedOther = None
    /\ docOther = None
    /\ fedLegacy = None
    /\ call = None
    /\ outcome = None
    /\ runs = None

ParseConfigReference(uri) ==
    /\ call = None
    /\ call' = Some([op |-> "parseConfigReference", uri |-> uri])
    /\ outcome' = Some(parseConfigReference(uri))
    /\ UNCHANGED Untouched

ParseElementUri(uri) ==
    /\ call = None
    /\ call' = Some([op |-> "parseElementUri", uri |-> uri])
    /\ outcome' = Some(parseElementUri(uri))
    /\ UNCHANGED Untouched

NextUri ==
    \/ \E uri \in Uris : ParseConfigReference(uri)
    \/ \E uri \in Uris : ParseElementUri(uri)

SpecUri == InitUri /\ [][NextUri]_vars

-----------------------------------------------------------------------------
(* Schemas (Zod objects) of the five shapes of the document.  A Zod object  *)
(* checks the keys it declares and strips the others, whatever they hold.   *)

Req(t) == [t |-> t, req |-> TRUE]
Opt(t) == [t |-> t, req |-> FALSE]

UpstreamShape == [name |-> Req("string"), url |-> Req("string")]
SubmoduleCore == [name |-> Req("string"), path |-> Req("string"), url |-> Opt("string")]
BranchCore == [name |-> Req("string"), branchName |-> Req("string"), sourceSha |-> Req("string")]
SupportCore ==
    [name |-> Req("string"), masterBranchName |-> Req("string"),
     developBranchName |-> Req("string"), sourceSha |-> Req("string"),
     features |-> Opt("objects"), releases |-> Opt("objects"), hotfixes |-> Opt("objects")]
ConfigCore ==
    [identifier |-> Req("string"), upstreams |-> Opt("objects"), submodules |-> Opt("objects"),
     features |-> Opt("objects"), releases |-> Opt("objects"), hotfixes |-> Opt("objects"),
     supports |-> Opt("objects"), included |-> Opt("strings"), excluded |-> Opt("strings")]
KindTemplates ==
    [featureMessageTemplate |-> Opt("string"), releaseMessageTemplate |-> Opt("string"),
     hotfixMessageTemplate |-> Opt("string"), releaseTagTemplate |-> Opt("string"),
     hotfixTagTemplate |-> Opt("string")]
NamedLists ==
    [integrations |-> Opt("objects"), commitMessageTemplates |-> Opt("objects"),
     tagTemplates |-> Opt("objects")]
IntegrationShape == [plugin |-> Req("string"), options |-> Opt("record")]
MessageTemplateShape == [name |-> Req("string"), message |-> Req("string")]
TagTemplateShape == [name |-> Req("string"), tag |-> Req("string"), annotation |-> Opt("string")]

\* src/lib/config.ts, first shape
OldestShape(level) ==
    CASE level = "config" -> ConfigCore
      [] level = "upstreams" -> UpstreamShape
      [] level = "submodules" -> SubmoduleCore
      [] level \in {"features", "releases", "hotfixes"} -> BranchCore @@ [sources |-> Opt("strings")]
      [] level = "supports" -> SupportCore

\* the shape with per-kind templates
TemplatesShape(level) ==
    CASE level = "config" -> ConfigCore @@ KindTemplates
      [] level = "upstreams" -> UpstreamShape
      [] level = "submodules" -> SubmoduleCore
      [] level = "features" -> BranchCore
      [] level \in {"releases", "hotfixes"} -> BranchCore @@ [intermediate |-> Opt("boolean")]
      [] level = "supports" -> SupportCore

\* the shape with managed, tags and upstream
ManagedShape(level) ==
    CASE level = "config" ->
             ConfigCore @@ KindTemplates @@ [managed |-> Opt("boolean"), tags |-> Opt("strings")]
      [] level = "upstreams" -> UpstreamShape
      [] level = "submodules" -> SubmoduleCore @@ [tags |-> Opt("strings")]
      [] level = "features" -> BranchCore @@ [upstream |-> Opt("string")]
      [] level \in {"releases", "hotfixes"} ->
             BranchCore @@ [upstream |-> Opt("string"), intermediate |-> Opt("boolean")]
      [] level = "supports" -> SupportCore @@ [upstream |-> Opt("string")]

\* src/lib/config.ts, second shape
LegacyShape(level) ==
    CASE level = "config" ->
             ConfigCore @@ KindTemplates @@ NamedLists
             @@ [managed |-> Opt("boolean"), version |-> Opt("string"), tags |-> Opt("strings")]
      [] level = "upstreams" -> UpstreamShape
      [] level = "submodules" -> SubmoduleCore @@ [tags |-> Opt("strings")]
      [] level = "features" -> BranchCore @@ [upstream |-> Opt("string"), tags |-> Opt("objects")]
      [] level \in {"releases", "hotfixes"} ->
             BranchCore @@ [upstream |-> Opt("string"), intermediate |-> Opt("boolean"),
                            tags |-> Opt("objects")]
      [] level = "supports" -> SupportCore @@ [upstream |-> Opt("string")]
      [] level = "integrations" -> IntegrationShape
      [] level = "commitMessageTemplates" -> MessageTemplateShape
      [] level = "tagTemplates" -> TagTemplateShape

\* Mutant: a Support has to declare its upstream.
CurrentSupportShape_UpstreamRequired ==
    SupportCore
    @@ [developVersion |-> Opt("string"), masterVersion |-> Opt("string"), upstream |-> Req("string")]

CurrentSupportShape ==
    SupportCore
    @@ [developVersion |-> Opt("string"), masterVersion |-> Opt("string"), upstream |-> Opt("string")]

CurrentShape(level) ==
    CASE level = "config" ->
             ConfigCore @@ KindTemplates @@ NamedLists
             @@ [apiVersion |-> Opt("string"), managed |-> Opt("boolean"), version |-> Opt("string"),
                 developVersion |-> Opt("string"), masterVersion |-> Opt("string"),
                 tags |-> Opt("strings"),
                 masterBranchName |-> Opt("string"), developBranchName |-> Opt("string"),
                 dependencies |-> Opt("dependencies"), labels |-> Opt("labels"),
                 annotations |-> Opt("record")]
      [] level = "upstreams" -> UpstreamShape
      [] level = "submodules" ->
             SubmoduleCore @@ [tags |-> Opt("strings"), labels |-> Opt("labels"),
                               annotations |-> Opt("record")]
      [] level = "features" ->
             BranchCore @@ [version |-> Opt("string"), upstream |-> Opt("string"),
                            tags |-> Opt("objects")]
      [] level \in {"releases", "hotfixes"} ->
             BranchCore @@ [version |-> Opt("string"), upstream |-> Opt("string"),
                            intermediate |-> Opt("boolean"), tags |-> Opt("objects")]
      [] level = "supports" -> CurrentSupportShape
      [] level = "integrations" -> IntegrationShape
      [] level = "commitMessageTemplates" -> MessageTemplateShape
      [] level = "tagTemplates" -> TagTemplateShape

OlderShapes == {"oldest", "templates", "managed", "legacy"}

Shape(v, level) ==
    CASE v = "oldest" -> OldestShape(level)
      [] v = "templates" -> TemplatesShape(level)
      [] v = "managed" -> ManagedShape(level)
      [] v = "legacy" -> LegacyShape(level)
      [] v = "current" -> CurrentShape(level)

\* The arrays of objects of a Config document, named by their key.
EntryLevels ==
    {"upstreams", "submodules", "features", "releases", "hotfixes", "supports",
     "integrations", "commitMessageTemplates", "tagTemplates"}

\* Keys that hold a plain value in a document; every other key is optional.
PlainKeys(level) ==
    CASE level = "config" -> {"identifier"}
      [] level = "upstreams" -> {"name", "url"}
      [] level = "submodules" -> {"name", "path"}
      [] level \in {"features", "releases", "hotfixes"} -> {"name", "branchName", "sourceSha"}
      [] level = "supports" -> {"name", "masterBranchName", "developBranchName", "sourceSha"}
      [] level = "integrations" -> {"plugin"}
      [] level = "commitMessageTemplates" -> {"name", "message"}
      [] level = "tagTemplates" -> {"name", "tag"}

\* A raw document: a well-typed document doc, with the keys of numbers
\* holding a number instead, the keys of absent left out and the keys of
\* extras (sources) holding a list of strings; a key is <<level, name>> and
\* stands for that key in every object of the level.
Present(r, level, e, key) ==
    \/ <<level, key>> \in r.numbers \cup r.extras
    \/ /\ <<level, key>> \notin r.absent
       /\ key \in DOMAIN e
       /\ (key \in PlainKeys(level) \/ e[key] # None)

KindOf(r, level, key) ==
    IF <<level, key>> \in r.numbers THEN "number"
    ELSE IF key = "sources" THEN "strings"
    ELSE CurrentShape(level)[key].t

\* One declared key of one object: a present value has the declared type,
\* an absent one is optional.
KeyOk(v, r, level, e, key) ==
    IF Present(r, level, e, key)
    THEN KindOf(r, level, key) = Shape(v, level)[key].t
    ELSE ~Shape(v, level)[key].req

EntryOk(v, r, level, e) == \A key \in DOMAIN Shape(v, level) : KeyOk(v, r, level, e, key)

\* The arrays of objects the schema walks into: declared, present, an array.
Walked(v, r, parent, e, level) ==
    /\ level \in DOMAIN Shape(v, parent)
    /\ <<parent, level>> \notin r.numbers
    /\ e[level] # None

SchemaAccepts(v, r) ==
    /\ EntryOk(v, r, "config", r.doc)
    /\ \A level \in EntryLevels : Walked(v, r, "config", r.doc, level) =>
           \A i \in 1..Len(r.doc[level][1]) :
               LET e == r.doc[level][1][i]
               IN  /\ EntryOk(v, r, level, e)
                   /\ level = "supports" =>
                          \A b \in BranchFields : Walked(v, r, "supports", e, b) =>
                              \A j \in 1..Len(e[b][1]) : EntryOk(v, r, b, e[b][1][j])

\* What the schema returns: the declared keys only.
StripEntry(v, level, e) ==
    [key \in DOMAIN e |-> IF key \in DOMAIN Shape(v, level) THEN e[key] ELSE None]

StripEntries(v, level, o) ==
    IF o = None THEN None ELSE Some(MapSeq(o[1], LAMBDA e : StripEntry(v, level, e)))

StripSupport(v, e) ==
    [StripEntry(v, "supports", e) EXCEPT
        !.features = StripEntries(v, "features", @),
        !.releases = StripEntries(v, "releases", @),
        !.hotfixes = StripEntries(v, "hotfixes", @)]

StripConfig(v, d) ==
    [StripEntry(v, "config", d) EXCEPT
        !.submodules = StripEntries(v, "submodules", @),
        !.features = StripEntries(v, "features", @),
        !.releases = StripEntries(v, "releases", @),
        !.hotfixes = StripEntries(v, "hotfixes", @),
        !.supports = IF @ = None THEN None ELSE Some(MapSeq(@[1], LAMBDA e : StripSupport(v, e)))]

\* ConfigSchema.parse of shape v
SchemaParse(v, r) ==
    IF SchemaAccepts(v, r)
    THEN Return([doc |-> StripConfig(v, r.doc),
                 extras |-> {p \in r.extras : p[2] \in DOMAIN Shape(v, p[1])}])
    ELSE ZodError("invalid_type", "")

\* Documents handed to the schemas: the documents of five trees, from one
\* that holds the keys of the first shape only to one that holds keys of the
\* current shape, each with at most one key turned into a number, at most
\* one required key left out and, possibly, a sources list on its branches.
OldestTree ==
    [EmptyConfig(sA, TRUE) EXCEPT
        !.upstreams = <<[name |-> sA, url |-> sA]>>,
        !.submodules = <<Submodule(sA, Some(sA), <<>>, <<>>, <<>>, None)>>,
        !.features = <<Feature(sA, None, None, <<>>)>>,
        !.supports = <<[Support(sA, None, None, None) EXCEPT
                           !.features = <<Feature(sA, None, None, <<>>)>>]>>,
        !.included = <<sA>>]

ManagedTree ==
    [OldestTree EXCEPT
        !.managed = FALSE,
        !.tags = <<sA>>,
        !.releases = <<Release(sA, None, None, FALSE, <<>>)>>,
        !.featureMessageTemplate = Some(sA),
        !.features = <<Feature(sA, None, Some(sA), <<>>)>>]

LegacyTree ==
    [ManagedTree EXCEPT
        !.integrations = <<[plugin |-> sA, options |-> <<>>]>>,
        !.commitMessageTemplates = <<[name |-> sA, message |-> sA]>>]

CurrentTree ==
    [LegacyTree EXCEPT
        !.apiVersion = Some(API_VERSION),
        !.developVersion = Some(vPlain),
        !.labels = <<Entry(sA, JStr(sA))>>,
        !.dependencies = Some(<<DepStr(sA)>>)]

SchemaTrees == {EmptyConfig(sA, TRUE), OldestTree, ManagedTree, LegacyTree, CurrentTree}

NumberKeys ==
    {<<"config", "identifier">>, <<"config", "managed">>, <<"config", "tags">>,
     <<"config", "integrations">>, <<"config", "labels">>, <<"config", "apiVersion">>,
     <<"config", "releaseTagTemplate">>, <<"config", "included">>,
     <<"features", "version">>, <<"features", "upstream">>, <<"features", "sources">>,
     <<"releases", "intermediate">>, <<"supports", "upstream">>, <<"submodules", "tags">>}

AbsentKeys ==
    {<<"config", "identifier">>, <<"features", "sourceSha">>,
     <<"supports", "developBranchName">>, <<"upstreams", "url">>}

ExtraKeys == {<<"features", "sources">>}

AtMostOne(S) == {{}} \cup {{x} : x \in S}

RawDocuments ==
    {[doc |-> ConfigToHash(t, FALSE), numbers |-> n, absent |-> a, extras |-> x \ n] :
        t \in SchemaTrees, n \in AtMostOne(NumberKeys), a \in AtMostOne(AbsentKeys),
        x \in AtMostOne(ExtraKeys)}

InitSchema ==
    /\ phase = "idle"
    /\ tree = EmptyConfig(sA, TRUE)
    /\ fed = None
    /\ docs = [st \in BOOLEAN |-> None]
    /\ other = None
    /\ rel = "none"
    /\ raw \in {Some(r) : r \in RawDocuments}
    /\ swapped = None
    /\ fedOther = None
    /\ docOther = None
    /\ fedLegacy = None
    /\ call = None
    /\ outcome = None
    /\ runs = None

\* The document is parsed by the schema of an older shape.
ParseOlder(v) ==
    /\ phase = "idle"
    /\ call = None
    /\ call' = Some([op |-> "parse", schema |-> v])
    /\ outcome' = Some(SchemaParse(v, raw[1]))
    /\ UNCHANGED Untouched

\* The same document is parsed by the current schema, and the tree is built
\* from what the schema returns.
ValidateCurrent ==
    /\ phase = "idle"
    /\ call # None
    /\ rel = "none"
    /\ LET parsed == SchemaParse("current", raw[1])
       IN  IF parsed.kind = "return"
           THEN /\ other' = Some(BuildConfig(parsed.value.doc))
                /\ rel' = "validated"
                /\ phase' = "derived"
           ELSE /\ other' = None
                /\ rel' = "rejected"
                /\ phase' = "idle"
    /\ UNCHANGED <<tree, fed, docs, raw, swapped, fedOther, docOther, fedLegacy, call, outcome, runs>>

NextSchema ==
    \/ \E v \in OlderShapes : ParseOlder(v)
    \/ ValidateCurrent
    \/ CalculateHashOther
    \/ ToHashOther

SpecSchema == InitSchema /\ [][NextSchema]_vars

-----------------------------------------------------------------------------
(* Validation by the recursive schema.  A nested raw document is a raw     *)
(* document with one more field, nested: the raw document every submodule  *)
(* of it holds under its config key, if any.                               *)

MaxDepth == 2       \* submodule configs nested in the documents validated

\* The config key of the submodules: RecursiveConfigSchema.optional()
ConfigKey == <<"submodules", "config">>

HoldsConfig(r) ==
    /\ Walked("current", r, "config", r.doc, "submodules")
    /\ ConfigKey \notin r.absent
    /\ (ConfigKey \in r.numbers \/ r.nested # None)

RECURSIVE RecursiveSchemaAccepts(_)

\* Mutant: the nested config is not looked at (ConfigSchema in place of
\* RecursiveConfigSchema).
RecursiveSchemaAccepts_Shallow(r) == SchemaAccepts("current", r)

RecursiveSchemaAccepts(r) ==
    /\ SchemaAccepts("current", r)
    /\ HoldsConfig(r) =>
           /\ ConfigKey \notin r.numbers
           /\ RecursiveSchemaAccepts(r.nested[1])

\* The keys of an object that the document does not hold are undefined in
\* what the schema returns.
Dropped(r, level, e) ==
    [key \in DOMAIN e |->
        IF key \in DOMAIN CurrentShape(level) /\ Present(r, level, e, key) THEN e[key] ELSE None]

DroppedEntries(r, level, o) ==
    IF o = None THEN None ELSE Some(MapSeq(o[1], LAMBDA e : Dropped(r, level, e)))

RECURSIVE Parsed(_)

Parsed(r) ==
    LET top == Dropped(r, "config", r.doc)
        config == IF HoldsConfig(r) THEN Some(Parsed(r.nested[1])) ELSE None
    IN  [top EXCEPT
            !.upstreams = DroppedEntries(r, "upstreams", @),
            !.submodules =
                IF @ = None THEN None
                ELSE Some(MapSeq(@[1],
                         LAMBDA e : [Dropped(r, "submodules", e) EXCEPT !.config = config])),
            !.features = DroppedEntries(r, "features", @),
            !.releases = DroppedEntries(r, "releases", @),
            !.hotfixes = DroppedEntries(r, "hotfixes", @),
            !.supports =
                IF @ = None THEN None
                ELSE Some(MapSeq(@[1],
                         LAMBDA e : [Dropped(r, "supports", e) EXCEPT
                                        !.features = DroppedEntries(r, "features", @),
                                        !.releases = DroppedEntries(r, "releases", @),
                                        !.hotfixes = DroppedEntries(r, "hotfixes", @)])),
            !.integrations = DroppedEntries(r, "integrations", @)]

\* RecursiveConfigSchema.parse
RecursiveSchemaParse(r) ==
    IF RecursiveSchemaAccepts(r) THEN Return(Parsed(r)) ELSE ZodError("invalid_type", "")

\* updateHash throws a TypeError where it calls a method of a value that is
\* undefined: intermediate.toString() of a Release or Hotfix that is fed.
\* (The options of an Integration are a map on every tree; JSON.stringify
\* of a map is a string.)
BranchThrows(b) == ~b.shadow /\ b.intermediate \notin BOOLEAN

\* Mutant: the flag is fed only when set (this.intermediate && ...), and
\* hash.update is handed the flag itself when it is false.
UpdateHashThrows_FalsyFlag(c) ==
    \/ \E i \in 1..Len(c.releases) : ~c.releases[i].shadow /\ c.releases[i].intermediate # TRUE
    \/ \E i \in 1..Len(c.hotfixes) : ~c.hotfixes[i].shadow /\ c.hotfixes[i].intermediate # TRUE

UpdateHashThrows(c) ==
    \/ \E i \in 1..Len(c.releases) : BranchThrows(c.releases[i])
    \/ \E i \in 1..Len(c.hotfixes) : BranchThrows(c.hotfixes[i])
    \/ \E k \in 1..Len(c.supports) :
           \/ \E i \in 1..Len(c.supports[k].releases) : BranchThrows(c.supports[k].releases[i])
           \/ \E i \in 1..Len(c.supports[k].hotfixes) : BranchThrows(c.supports[k].hotfixes[i])

TypeError == [kind |-> "throw", error |-> "TypeError"]

\* The documents validated.
ValidationTree ==
    [CurrentTree EXCEPT
        !.hotfixes = <<Release(sA, None, None, TRUE, <<>>)>>,
        !.supports[1].releases = <<Release(sA, None, None, FALSE, <<>>)>>,
        !.integrations = <<[plugin |-> sA, options |-> <<Entry(sA, JStr(sA))>>]>>]

MiddleTree ==
    [EmptyConfig(sB, TRUE) EXCEPT
        !.submodules = <<Submodule(sA, None, <<>>, <<>>, <<>>, None)>>,
        !.releases = <<Release(sA, None, None, FALSE, <<>>)>>]

InnerTree == EmptyConfig(sAA, FALSE)

Flawed(t, ns, as, inner) ==
    {[doc |-> ConfigToHash(t, FALSE), numbers |-> n, absent |-> a, extras |-> {}, nested |-> i] :
        n \in AtMostOne(ns), a \in AtMostOne(as), i \in inner}

RECURSIVE NestedDocuments(_)

NestedDocuments(depth) ==
    IF depth = 0
    THEN Flawed(InnerTree, {<<"config", "identifier">>, <<"config", "managed">>},
                {<<"config", "identifier">>}, {None})
    ELSE LET inner == {None} \cup {Some(r) : r \in NestedDocuments(depth - 1)}
         IN  IF depth < MaxDepth
             THEN Flawed(MiddleTree, {ConfigKey}, {<<"config", "identifier">>, <<"submodules", "name">>}, inner)
             ELSE Flawed(ValidationTree, {<<"submodules", "path">>}, {<<"features", "name">>}, inner)

FlatDocuments ==
    Flawed(ValidationTree,
           {<<"config", "identifier">>, <<"config", "managed">>, <<"submodules", "path">>,
            <<"features", "name">>, <<"features", "sources">>, <<"upstreams", "url">>,
            <<"supports", "upstream">>, <<"releases", "intermediate">>, ConfigKey},
           {<<"config", "identifier">>, <<"submodules", "name">>, <<"features", "sourceSha">>,
            <<"releases", "branchName">>, <<"supports", "masterBranchName">>,
            <<"upstreams", "name">>, <<"integrations", "plugin">>,
            <<"releases", "intermediate">>, <<"hotfixes", "intermediate">>,
            <<"integrations", "options">>, <<"config", "managed">>},
           {None})

InitValidate ==
    /\ phase = "idle"
    /\ tree = EmptyConfig(sA, TRUE)
    /\ fed = None
    /\ docs = [st \in BOOLEAN |-> None]
    /\ other = None
    /\ rel = "none"
    /\ raw \in {Some(r) : r \in FlatDocuments \cup NestedDocuments(0) \cup NestedDocuments(MaxDepth)}
    /\ swapped = None
    /\ fedOther = None
    /\ docOther = None
    /\ fedLegacy = None
    /\ call = None
    /\ outcome = None
    /\ runs = None

\* validate(rawDocument): the recursive schema, then the constructors.
ValidateDocument ==
    /\ phase = "idle"
    /\ call = None
    /\ call' = Some([op |-> "validate"])
    /\ LET parsed == RecursiveSchemaParse(raw[1])
       IN  /\ outcome' = Some(IF parsed.kind = "return" THEN Return("tree") ELSE parsed)
           /\ IF parsed.kind = "return"
              THEN /\ other' = Some(BuildConfig(parsed.value))
                   /\ rel' = "validated"
                   /\ phase' = "derived"
              ELSE /\ other' = None
                   /\ rel' = "rejected"
                   /\ phase' = "idle"
    /\ UNCHANGED <<tree, fed, docs, raw, swapped, fedOther, docOther, fedLegacy, runs>>

\* calculateHash() of the tree validation returned.
ComputeHash ==
    /\ phase = "derived"
    /\ call' = Some([op |-> "calculateHash"])
    /\ IF UpdateHashThrows(other[1])
       THEN /\ outcome' = Some(TypeError)
            /\ fedOther' = None
            /\ phase' = "failed"
       ELSE /\ outcome' = Some(Return("digest"))
            /\ fedOther' = Some(ConfigUpdateHash(other[1]))
            /\ phase' = "otherHashed"
    /\ UNCHANGED <<tree, fed, docs, other, rel, raw, swapped, docOther, fedLegacy, runs>>

NextValidate ==
    \/ ValidateDocument
    \/ ComputeHash
    \/ ToHashOther

SpecValidate == InitValidate /\ [][NextValidate]_vars

-----------------------------------------------------------------------------
(* Invocations of calculateHash in progress at once.  An invocation makes   *)
(* its hash object, then passes the values of updateHash to it one by one,  *)
(* then takes the digest; the steps of different invocations interleave in  *)
(* any way.                                                                *)

MaxRuns == 2        \* invocations of calculateHash in progress at once

Runs == 1..MaxRuns

\* Mutant: one hash object, made once, serves every invocation.
HashObject_Shared(k) == 1

\* const hash = Crypto.createHash(algorithm): a hash object of the call's own
HashObject(k) == k

TargetTree(on) == IF on = "tree" THEN tree ELSE other[1]

InProgress(k) == runs[1].calls[k] # None /\ runs[1].calls[k][1].digest = None

ConcurrentTrees ==
    {EmptyConfig(sA, FALSE),
     [EmptyConfig(sA, TRUE) EXCEPT !.included = <<sA, sAA>>],
     [EmptyConfig(sAA, TRUE) EXCEPT !.tags = <<sB>>, !.developVersion = Some(vPlain)]}

InitConcurrent ==
    /\ phase = "built"
    /\ tree \in ConcurrentTrees
    /\ fed = None
    /\ docs = [st \in BOOLEAN |-> None]
    /\ other \in {Some(t) : t \in ConcurrentTrees}
    /\ rel = "none"
    /\ raw = None
    /\ swapped = None
    /\ fedOther = None
    /\ docOther = None
    /\ fedLegacy = None
    /\ call = None
    /\ outcome = None
    /\ runs = Some([calls |-> [k \in Runs |-> None], hashes |-> [h \in Runs |-> <<>>]])

Settled == <<phase, tree, Results, call, outcome>>

\* calculateHash() is entered: Crypto.createHash
StartCalculateHash(k, on) ==
    /\ runs # None
    /\ ~InProgress(k)
    /\ runs' = Some([calls |-> [runs[1].calls EXCEPT
                                   ![k] = Some([on |-> on, pos |-> 0, digest |-> None,
                                                overlapped |-> FALSE])],
                     hashes |-> [runs[1].hashes EXCEPT ![HashObject(k)] = <<>>]])
    /\ UNCHANGED Settled

\* the next hash.update(...) of this.updateHash(hash)
UpdateStep(k) ==
    /\ runs # None
    /\ InProgress(k)
    /\ LET c == runs[1].calls[k][1]
           feed == ConfigUpdateHash(TargetTree(c.on))
       IN  /\ c.pos < Len(feed)
           /\ runs' = Some([calls |-> [runs[1].calls EXCEPT
                                          ![k] = Some([c EXCEPT
                                                   !.pos = @ + 1,
                                                   !.overlapped = @ \/ \E j \in Runs \ {k} : InProgress(j)])],
                            hashes |-> [runs[1].hashes EXCEPT
                                           ![HashObject(k)] = Append(@, feed[c.pos + 1])]])
    /\ UNCHANGED Settled

\* return hash.digest(encoding)
Digest(k) ==
    /\ runs # None
    /\ InProgress(k)
    /\ LET c == runs[1].calls[k][1]
       IN  /\ c.pos = Len(ConfigUpdateHash(TargetTree(c.on)))
           /\ runs' = Some([runs[1] EXCEPT
                               !.calls[k] = Some([c EXCEPT
                                   !.digest = Some(Bytes(runs[1].hashes[HashObject(k)]))])])
    /\ UNCHANGED Settled

NextConcurrent ==
    \/ \E k \in Runs, on \in {"tree", "other"} : StartCalculateHash(k, on)
    \/ \E k \in Runs : UpdateStep(k)
    \/ \E k \in Runs : Digest(k)

SpecConcurrent == InitConcurrent /\ [][NextConcurrent]_vars

-----------------------------------------------------------------------------
(* The operations on trees that hold shadow entries.                       *)

Shadow(e) == [e EXCEPT !.shadow = TRUE]

FrameTrees ==
    LET full ==
            [EmptyConfig(sA, TRUE) EXCEPT
                !.developVersion = Some(vPrefixed),
                !.submodules = <<Shadow(Submodule(sA, None, <<>>, <<>>, <<>>, None)),
                                 Submodule(sAA, None, <<sA>>, <<>>, <<>>, None)>>,
                !.features = <<Shadow(Feature(sAA, Some(vPlain), None, <<>>)),
                               Feature(sA, None, None, <<>>)>>,
                !.releases = <<Release(sA, Some(vGarbage), None, FALSE, <<>>),
                               Shadow(Release(sAA, None, None, TRUE, <<>>))>>,
                !.hotfixes = <<Shadow(Release(sA, Some(vPlain), None, FALSE, <<>>))>>,
                !.supports = <<[Support(sA, Some(vPlain), None, None) EXCEPT
                                   !.releases = <<Shadow(Release(sA, None, None, FALSE, <<>>)),
                                                  Release(sAA, None, None, FALSE, <<>>)>>]>>]
    IN  {full,
         [full EXCEPT !.managed = FALSE, !.apiVersion = Some(API_VERSION)],
         [full EXCEPT !.submodules = <<>>, !.supports = <<>>],
         [full EXCEPT !.features = <<@[2], @[1]>>, !.masterVersion = Some(sE)]}

InitFrame ==
    /\ phase = "built"
    /\ tree \in FrameTrees
    /\ fed = None
    /\ docs = [st \in BOOLEAN |-> None]
    /\ other = None
    /\ rel = "none"
    /\ raw = None
    /\ swapped = None
    /\ fedOther = None
    /\ docOther = None
    /\ fedLegacy = None
    /\ call = None
    /\ outcome = None
    /\ runs = None

SpecFrame == InitFrame /\ [][NextVersion]_vars

-----------------------------------------------------------------------------
(* Hash engines of the first two shapes, and pairs of trees hashed by      *)
(* every engine.                                                           *)

\* for (const include in this.included): the loop variable of for...in is
\* the index of the element, as a string.
IndexKeys(s) == [i \in 1..Len(s) |-> <<ToString(i - 1)>>]

OldestGlobsUpdateHash(c) ==
    G("included", IndexKeys(c.included)) \o G("excluded", IndexKeys(c.excluded))

\* The trees hashed here hold no sources.
OldestBranchUpdateHash(b) == <<b.name, b.branchName, b.sourceSha>>

OldestSubmoduleUpdateHash(m) == <<m.name, m.path>> \o FeedOpt(m.url)

OldestSupportUpdateHash(p) ==
    <<p.name, p.masterBranchName, p.developBranchName, p.sourceSha>>
    \o Flat(MapSeq(p.features, OldestBranchUpdateHash))
    \o Flat(MapSeq(p.releases, OldestBranchUpdateHash))
    \o Flat(MapSeq(p.hotfixes, OldestBranchUpdateHash))

OldestConfigUpdateHash(c) ==
    G("identifier", <<c.identifier>>)
    \o G("upstreams", Flat(MapSeq(c.upstreams, UpstreamUpdateHash)))
    \o OldestGlobsUpdateHash(c)
    \o G("submodules", Flat(MapSeq(c.submodules, OldestSubmoduleUpdateHash)))
    \o G("features", Flat(MapSeq(c.features, OldestBranchUpdateHash)))
    \o G("releases", Flat(MapSeq(c.releases, OldestBranchUpdateHash)))
    \o G("hotfixes", Flat(MapSeq(c.hotfixes, OldestBranchUpdateHash)))
    \o G("supports", Flat(MapSeq(c.supports, OldestSupportUpdateHash)))

TemplatesReleaseUpdateHash(r) ==
    <<r.name, r.branchName, r.sourceSha, BoolToString(r.intermediate)>>

TemplatesSupportUpdateHash(p) ==
    <<p.name, p.masterBranchName, p.developBranchName, p.sourceSha>>
    \o Flat(MapSeq(p.features, OldestBranchUpdateHash))
    \o Flat(MapSeq(p.releases, TemplatesReleaseUpdateHash))
    \o Flat(MapSeq(p.hotfixes, TemplatesReleaseUpdateHash))

TemplatesConfigUpdateHash(c) ==
    G("identifier", <<c.identifier>>)
    \o G("upstreams", Flat(MapSeq(c.upstreams, UpstreamUpdateHash)))
    \o G("included", c.included)
    \o G("excluded", c.excluded)
    \o G("submodules", Flat(MapSeq(c.submodules, OldestSubmoduleUpdateHash)))
    \o G("features", Flat(MapSeq(c.features, OldestBranchUpdateHash)))
    \o G("releases", Flat(MapSeq(c.releases, TemplatesReleaseUpdateHash)))
    \o G("hotfixes", Flat(MapSeq(c.hotfixes, TemplatesReleaseUpdateHash)))
    \o G("supports", Flat(MapSeq(c.supports, TemplatesSupportUpdateHash)))
    \o G("templates", FeedOpt(c.featureMessageTemplate)
                      \o FeedOpt(c.releaseMessageTemplate)
                      \o FeedOpt(c.hotfixMessageTemplate)
                      \o FeedOpt(c.releaseTagTemplate)
                      \o FeedOpt(c.hotfixTagTemplate))

Engines == {"oldest", "templates", "legacy", "current"}

\* updateHash of the engine of a shape, on the tree that shape's registry
\* builds from the document of the tree.
EngineUpdateHash(v, c) ==
    CASE v = "oldest" -> OldestConfigUpdateHash(c)
      [] v = "templates" -> TemplatesConfigUpdateHash(c)
      [] v = "legacy" -> LegacyConfigUpdateHash(LegacyBuildConfig(ConfigToHash(c, FALSE)))
      [] v = "current" -> ConfigUpdateHash(c)

sAB == <<"a", "b">>
sBC == <<"b", "c">>
sC == <<"c">>

VariantTrees ==
    LET base == EmptyConfig(sA, TRUE)
        sub(c) == Submodule(sB, None, <<>>, <<>>, <<>>, c)
    IN  {base,
         EmptyConfig(sA, FALSE),
         EmptyConfig(sA \o UNMANAGED, TRUE),
         [base EXCEPT !.included = <<sA>>],
         [base EXCEPT !.included = <<sB>>],
         [base EXCEPT !.included = <<sA>>, !.excluded = <<sA, sB>>],
         [base EXCEPT !.included = <<sA>>, !.excluded = <<sA, sC>>],
         [base EXCEPT !.upstreams = <<[name |-> sAB, url |-> sC]>>],
         [base EXCEPT !.upstreams = <<[name |-> sA, url |-> sBC]>>],
         [base EXCEPT !.submodules = <<sub(None)>>],
         [base EXCEPT !.submodules = <<sub(Some(EmptyConfig(sB, TRUE)))>>],
         [base EXCEPT !.submodules = <<sub(Some(EmptyConfig(sA, FALSE)))>>]}

InitVariants ==
    /\ phase = "built"
    /\ tree \in VariantTrees
    /\ fed = None
    /\ docs = [st \in BOOLEAN |-> None]
    /\ other = None
    /\ rel = "none"
    /\ raw = None
    /\ swapped = None
    /\ fedOther = None
    /\ docOther = None
    /\ fedLegacy = None
    /\ call = None
    /\ outcome = None
    /\ runs = None

\* A second tree, to be hashed like the first.
Vary(t) ==
    /\ phase = "hashed"
    /\ t # tree
    /\ other' = Some(t)
    /\ rel' = "variant"
    /\ phase' = "derived"
    /\ UNCHANGED <<tree, fed, docs, raw, swapped, fedOther, docOther, fedLegacy, call, outcome, runs>>

\* calculateHash() of the engine of a shape, on both trees.
EngineCalculateHash(v) ==
    /\ phase = "otherHashed"
    /\ call = None
    /\ call' = Some([op |-> "calculateHash", engine |-> v])
    /\ outcome' = Some(Return([tree |-> EngineUpdateHash(v, tree),
                               other |-> EngineUpdateHash(v, other[1])]))
    /\ UNCHANGED Untouched

NextVariants ==
    \/ CalculateHash
    \/ \E t \in VariantTrees : Vary(t)
    \/ CalculateHashOther
    \/ \E v \in Engines : EngineCalculateHash(v)

SpecVariants == InitVariants /\ [][NextVariants]_vars

-----------------------------------------------------------------------------
(* Properties *)

\* The document a validation started from is the canonical document of tree.
FromCanonical == rel = "validated" /\ raw = docs[FALSE]

BranchesOf(c) ==
    c.features \o c.releases \o c.hotfixes
    \o Flat(MapSeq(c.supports, LAMBDA s : s.features \o s.releases \o s.hotfixes))

HasTagging(c) == \E i \in 1..Len(BranchesOf(c)) : BranchesOf(c)[i].tags # <<>>

\* C1: for a tree without shadow entries, the tree rebuilt from toHash()
\* feeds the hash the same bytes as the tree itself.
C1_RoundTripHash ==
    (FromCanonical /\ ShadowCount(tree) = 0 /\ fedOther # None)
        => Bytes(fedOther[1]) = Bytes(fed[1])

\* C2: adding shadow-flagged entries to the collections of a Config or of a
\* Support leaves the sequence of values fed to the hash unchanged.
C2_ShadowHash ==
    (rel = "shadow" /\ fedOther # None) => fedOther[1] = fed[1]

C2_Witness ==
    /\ rel = "shadow"
    /\ fedOther # None
    /\ \E i \in 1..Len(other[1].supports) :
           /\ Len(other[1].supports[i].hotfixes) = 2
           /\ Len(Visible(other[1].supports[i].hotfixes)) = 1

ShownCount(o) == Len(OrEmpty(o))
AllShadow(s) == s # <<>> /\ Visible(s) = <<>>

\* C3: the canonical document holds one entry per entry that is not
\* shadow-flagged, at the Config level and inside every Support, so adding
\* shadow entries does not change it, and a collection of shadow entries
\* only is omitted like an empty one.
C3_ShadowCanonical ==
    (rel = "shadow" /\ docOther # None) =>
        LET d == docOther[1]
            o == other[1]
        IN  /\ d = docs[FALSE][1]
            /\ \A f \in ShadowFields :
                   /\ ShownCount(d[f]) = Cardinality({i \in 1..Len(o[f]) : ~o[f][i].shadow})
                   /\ AllShadow(o[f]) => d[f] = None
            /\ \A i \in 1..Len(o.supports) : \A f \in BranchFields :
                   /\ ShownCount(d.supports[1][i][f])
                          = Cardinality({k \in 1..Len(o.supports[i][f]) : ~o.supports[i][f][k].shadow})
                   /\ AllShadow(o.supports[i][f]) => d.supports[1][i][f] = None

C3_Witness ==
    /\ rel = "shadow"
    /\ docOther # None
    /\ \E i \in 1..Len(other[1].supports) :
           AllShadow(other[1].supports[i].releases) /\ docOther[1].supports[1][i].releases = None

\* The document validated is the canonical document of tree with its
\* managed key absent, true or false, and nothing else changed.
ManagedVariant ==
    /\ rel = "validated"
    /\ [raw[1] EXCEPT !.managed = None] = [docs[FALSE][1] EXCEPT !.managed = None]

EqualButManaged(a, b) == [a EXCEPT !.managed = TRUE] = [b EXCEPT !.managed = TRUE]

SentinelToken == [g |-> "managed", v |-> UNMANAGED]

\* C4: of two trees equal in every other field, the one built from a document
\* with managed absent and the one built with managed true feed what a tree
\* with managed true feeds, and a tree with managed false feeds that with the
\* token 'unmanaged' added, which is a different input.
C4_ManagedSentinel ==
    (ManagedVariant /\ fedOther # None /\ EqualButManaged(other[1], tree)) =>
        LET m == raw[1].managed
            a == fed[1]
            b == fedOther[1]
        IN  /\ (m \in {None, Some(TRUE)} /\ tree.managed) => (b = a /\ Bytes(b) = Bytes(a))
            /\ (m = Some(FALSE) /\ ~tree.managed) => (b = a /\ Bytes(b) = Bytes(a))
            /\ (m = Some(FALSE) /\ tree.managed) =>
                   /\ Bytes(b) # Bytes(a)
                   /\ \E k \in 1..Len(b) : b[k] = SentinelToken /\ b = InsertAt(a, k, SentinelToken)
            /\ (m \in {None, Some(TRUE)} /\ ~tree.managed) =>
                   /\ Bytes(b) # Bytes(a)
                   /\ \E k \in 1..Len(a) : a[k] = SentinelToken /\ a = InsertAt(b, k, SentinelToken)

C4_Witness ==
    /\ ManagedVariant /\ fedOther # None /\ EqualButManaged(other[1], tree)
    /\ raw[1].managed = Some(TRUE)
    /\ ~tree.managed
    /\ tree.apiVersion = Some(sA)

\* The place of each group of fields in ConfigBase.updateHash.
CodeRank(g) ==
    CASE g = "apiVersion" -> 1 [] g = "identifier" -> 2 [] g = "managed" -> 3
      [] g = "version" -> 4 [] g = "upstreams" -> 5 [] g = "included" -> 6
      [] g = "excluded" -> 7 [] g = "submodules" -> 8 [] g = "features" -> 9
      [] g = "releases" -> 10 [] g = "hotfixes" -> 11 [] g = "supports" -> 12
      [] g = "templates" -> 13 [] g = "tags" -> 14 [] g = "integrations" -> 15
      [] g = "commitMessageTemplates" -> 16 [] g = "tagTemplates" -> 17
      [] g = "branchNames" -> 18 [] g = "dependencies" -> 19
      [] g = "labels" -> 20 [] g = "annotations" -> 21

\* The place of each group in the order the specification states: identifier first,
\* and the named template lists with the per-kind templates, before the tags.
ClaimedRank(g) ==
    CASE g = "identifier" -> 1 [] g = "apiVersion" -> 2 [] g = "managed" -> 3
      [] g = "version" -> 4 [] g = "upstreams" -> 5 [] g = "included" -> 6
      [] g = "excluded" -> 7 [] g = "submodules" -> 8 [] g = "features" -> 9
      [] g = "releases" -> 10 [] g = "hotfixes" -> 11 [] g = "supports" -> 12
      [] g = "templates" -> 13 [] g = "commitMessageTemplates" -> 13
      [] g = "tagTemplates" -> 13 [] g = "tags" -> 14 [] g = "integrations" -> 15
      [] g = "branchNames" -> 16 [] g = "dependencies" -> 17
      [] g = "labels" -> 18 [] g = "annotations" -> 19

\* C5 as stated: identifier, apiVersion, managed, version(s), ..., supports,
\* templates (per-kind and named lists), tags, integrations, branch-name
\* overrides, dependencies, labels, annotations.
C5_ClaimedOrder ==
    fed # None =>
        \A i, j \in 1..Len(fed[1]) : i < j => ClaimedRank(fed[1][i].g) <= ClaimedRank(fed[1][j].g)

\* C5 as amended: apiVersion, identifier, managed, version(s), upstreams,
\* included, excluded, submodules, features, releases, hotfixes, supports,
\* per-kind templates, tags, integrations, commit-message templates, tag
\* templates, branch-name overrides, dependencies, labels, annotations; no
\* field of a later group is fed before a field of an earlier group.
C5_TraversalOrder ==
    /\ fed # None =>
        \A i, j \in 1..Len(fed[1]) : i < j => CodeRank(fed[1][i].g) <= CodeRank(fed[1][j].g)
    /\ fedOther # None =>
        \A i, j \in 1..Len(fedOther[1]) : i < j => CodeRank(fedOther[1][i].g) <= CodeRank(fedOther[1][j].g)

C5_Witness ==
    /\ fed # None
    /\ \E i, j \in 1..Len(fed[1]) :
           /\ i < j
           /\ fed[1][i].g = "apiVersion"
           /\ fed[1][j].g = "identifier"
    /\ \E i \in 1..Len(fed[1]) : fed[1][i].g = "tagTemplates"

\* C6: for a document of the legacy shape, the current engine on the tree
\* built from it consumes the bytes the legacy engine consumes.
C6_DigestCompatible ==
    (fedLegacy # None /\ fedOther # None) => Bytes(fedOther[1]) = Bytes(fedLegacy[1])

SwappedDiffer ==
    LET f == swapped[1]
        s == IF f = "dependencies" THEN tree.dependencies[1] ELSE tree[f]
    IN  s[swapped[2]] # s[swapped[3]]

\* C7: exchanging two unequal elements of an ordered collection changes the
\* bytes fed to the hash.
C7_OrderSensitive ==
    (rel = "swap" /\ fedOther # None /\ SwappedDiffer) => Bytes(fedOther[1]) # Bytes(fed[1])

\* C8: for a tree without shadow entries, the tree built from toHash() has
\* the same value in every field at every depth.
C8_RoundTripTree ==
    (FromCanonical /\ ShadowCount(tree) = 0) => other[1] = tree

DocScalars ==
    ScalarFields
DocCollections ==
    SeqFields \cup {"dependencies", "labels", "annotations"}

EmptyInTree(c, f) ==
    IF f = "dependencies" THEN OrEmpty(c.dependencies) = <<>>
    ELSE IF f \in ShadowFields THEN Visible(c[f]) = <<>>
    ELSE c[f] = <<>>

\* The canonical document d of tree c is minimal.
Minimal(d, c, stamped) ==
    /\ \A f \in DocCollections :
           /\ d[f] # Some(<<>>)
           /\ EmptyInTree(c, f) => d[f] = None
    /\ \A f \in DocScalars :
           (c[f] = None /\ ~(stamped /\ f = "apiVersion")) => d[f] = None
    /\ c.managed => d.managed = None
    /\ ~c.managed => d.managed = Some(FALSE)
    /\ \A i \in 1..Len(OrEmpty(d.submodules)) :
           LET ds == d.submodules[1][i]
               cs == Visible(c.submodules)[i]
           IN  /\ ds.tags # Some(<<>>) /\ ds.labels # Some(<<>>) /\ ds.annotations # Some(<<>>)
               /\ cs.url = None => ds.url = None
               /\ cs.tags = <<>> => ds.tags = None
               /\ cs.labels = <<>> => ds.labels = None
               /\ cs.annotations = <<>> => ds.annotations = None
    /\ \A i \in 1..Len(OrEmpty(d.supports)) :
           LET ds == d.supports[1][i]
               cs == c.supports[i]
           IN  /\ \A f \in BranchFields :
                      /\ ds[f] # Some(<<>>)
                      /\ Visible(cs[f]) = <<>> => ds[f] = None
               /\ \A f \in {"developVersion", "masterVersion", "upstream"} :
                      cs[f] = None => ds[f] = None
    /\ \A i \in 1..Len(OrEmpty(d.integrations)) :
           LET di == d.integrations[1][i]
               ci == c.integrations[i]
           IN  /\ di.options # Some(<<>>)
               /\ ci.options = <<>> => di.options = None

\* C9: at the Config, Submodule, Support and Integration levels the
\* canonical document holds no empty collection or map, omits every field
\* the tree does not have, omits managed when it is true and keeps it when
\* it is false (the stamped apiVersion apart).
C9_Minimal ==
    /\ \A st \in BOOLEAN : docs[st] # None => Minimal(docs[st][1], tree, st)
    /\ docOther # None => Minimal(docOther[1], other[1], FALSE)

C9_Witness ==
    /\ docs[FALSE] # None
    /\ tree.managed = FALSE
    /\ docs[FALSE][1].managed = Some(FALSE)
    /\ Len(tree.integrations) = 1
    /\ tree.integrations[1].options = <<>>
    /\ docs[FALSE][1].integrations[1][1].options = None
    /\ docs[FALSE][1].tags = None

\* C10: toHash(true) writes the current API version whatever the tree
\* declares, toHash() emits the tree's own apiVersion, absent when it has
\* none, and the two documents agree on every other field.
C10_Stamp ==
    /\ docs[TRUE] # None =>
           /\ docs[TRUE][1].apiVersion = Some(<<"v","1",".","5",".","0">>)
           /\ SemverCoerce(docs[TRUE][1].apiVersion[1]) = SemverCoerce(API_VERSION)
    /\ docs[FALSE] # None => docs[FALSE][1].apiVersion = tree.apiVersion
    /\ (docs[TRUE] # None /\ docs[FALSE] # None) =>
           [docs[TRUE][1] EXCEPT !.apiVersion = None] = [docs[FALSE][1] EXCEPT !.apiVersion = None]

C10_Witness ==
    /\ docs[TRUE] # None
    /\ tree.apiVersion = Some(sA)
    /\ docs[FALSE][1].apiVersion = Some(sA)
    /\ docs[TRUE][1].apiVersion # docs[FALSE][1].apiVersion
    /\ docs[TRUE][1].tags = Some(<<sA>>)

\* The field a resolveVersion call reads: by the branch asked for on a Config
\* or a Support, the one version of a Feature, Release or Hotfix.
Holder == IF call[1].on = "config" THEN tree ELSE tree[call[1].on][call[1].at]

SelectedField ==
    IF call[1].on \in {"config", "supports"}
    THEN IF call[1].type = Some("master") THEN Holder.masterVersion ELSE Holder.developVersion
    ELSE Holder.version

Resolving(op) == call # None /\ call[1].op = op

\* MAJOR.MINOR.PATCH, without prefix or padding.
IsPlainVersion(s) == IsFullVersion(s) /\ Head(s) # "v" /\ \A k \in 1..Len(s) : s[k] \in Digits \cup {"."}

\* The error message quotes the raw string.
Carries(o, r) ==
    /\ o.kind = "throw"
    /\ Len(o.message) = Len(r) + 2
    /\ SubSeq(o.message, 2, Len(o.message) - 1) = r

\* C11: on a Config or a Support, resolveVersion('develop') and
\* resolveVersion() read developVersion and resolveVersion('master') reads
\* masterVersion; the result is undefined when the field read is absent and
\* the normalized version when it is a valid one ('1.2.3' gives '1.2.3'),
\* whatever the other field holds.
C11_SelectsByBranch ==
    (Resolving("resolveVersion") /\ call[1].on \in {"config", "supports"}) =>
        LET sel == SelectedField
            o == outcome[1]
        IN  /\ sel = None => o = Return(None)
            /\ sel = Some(vPlain) => o = Return(Some(vPlain))
            /\ (sel # None /\ SemverClean(sel[1]) # None) =>
                   /\ o.kind = "return"
                   /\ o.value # None
                   /\ IsPlainVersion(o.value[1])

C11_Witness ==
    /\ Resolving("resolveVersion")
    /\ call[1].on = "config"
    /\ call[1].type = None
    /\ tree.developVersion = Some(vPrefixed)
    /\ tree.masterVersion = Some(vGarbage)
    /\ outcome[1] = Return(Some(vPlain))

\* C12: a resolveVersion whose field is present and is not a valid version
\* after cleaning, the empty string included, fails with an error that
\* carries the raw string; it returns undefined only when the field is absent.
C12_UnparsableFails ==
    Resolving("resolveVersion") =>
        LET sel == SelectedField
            o == outcome[1]
        IN  /\ (sel # None /\ SemverClean(sel[1]) = None) => Carries(o, sel[1])
            /\ o = Return(None) => sel = None

\* What a version field contributes to the bytes hashed.
Str(o) == IF o = None THEN <<>> ELSE o[1]

GroupBytes(feed, g) == Bytes(SelectSeq(feed, LAMBDA tok : tok.g = g))

BranchBytes(b) == b.name \o b.branchName \o b.sourceSha \o Str(b.version)

\* C13: a tree whose version fields hold unparsable strings is hashed and
\* serialized all the same: the strings reach the hash and the canonical
\* document as they are, no step but a resolver throws, and the resolver
\* throws on an unparsable string that is not empty.
C13_LazyValidation ==
    /\ phase = "built" => ENABLED CalculateHash
    /\ phase = "hashed" => ENABLED ToHash(FALSE)
    /\ phase = "canon" => ENABLED ToHash(TRUE)
    /\ fed # None =>
           /\ GroupBytes(fed[1], "version") = Str(tree.developVersion) \o Str(tree.masterVersion)
           /\ Len(tree.features) = 1 =>
                  /\ GroupBytes(fed[1], "features") = BranchBytes(tree.features[1])
                  /\ GroupBytes(fed[1], "releases")
                         = BranchBytes(tree.releases[1]) \o BoolToString(tree.releases[1].intermediate)
           /\ Len(tree.supports) = 1 =>
                  GroupBytes(fed[1], "supports")
                      = tree.supports[1].name \o tree.supports[1].masterBranchName
                        \o tree.supports[1].developBranchName \o tree.supports[1].sourceSha
                        \o Str(tree.supports[1].developVersion) \o Str(tree.supports[1].masterVersion)
    /\ \A st \in BOOLEAN : docs[st] # None =>
           /\ docs[st][1].developVersion = tree.developVersion
           /\ docs[st][1].masterVersion = tree.masterVersion
           /\ Len(tree.features) = 1 =>
                  /\ docs[st][1].features[1][1].version = tree.features[1].version
                  /\ docs[st][1].hotfixes[1][1].version = tree.hotfixes[1].version
           /\ Len(tree.supports) = 1 =>
                  /\ docs[st][1].supports[1][1].developVersion = tree.supports[1].developVersion
                  /\ docs[st][1].supports[1][1].masterVersion = tree.supports[1].masterVersion
    /\ (outcome # None /\ outcome[1].kind = "throw") => call[1].op \in {"resolveVersion", "resolveApiVersion"}
    /\ (Resolving("resolveVersion") /\ Truthy(SelectedField) /\ SemverClean(SelectedField[1]) = None)
           => Carries(outcome[1], SelectedField[1])

C13_Witness ==
    /\ tree.developVersion = Some(vGarbage)
    /\ docs[TRUE] # None
    /\ docs[FALSE][1].developVersion = Some(vGarbage)
    /\ \E k \in 1..Len(fed[1]) : fed[1][k] = [g |-> "version", v |-> vGarbage]
    /\ Resolving("resolveVersion")
    /\ call[1].on = "config"
    /\ outcome[1].kind = "throw"

\* C14: resolveApiVersion takes 'v0.0' for an absent apiVersion and returns
\* '0.0.0'; for a declared one it returns the coerced MAJOR.MINOR.PATCH
\* ('v1.5' gives '1.5.0'), and it throws, quoting the string, when the
\* declared string cannot be coerced.
C14_ResolveApiVersion ==
    Resolving("resolveApiVersion") =>
        LET a == tree.apiVersion
            o == outcome[1]
        IN  /\ a = None => o = Return(<<"0", ".", "0", ".", "0">>)
            /\ a = Some(<<"v", "1", ".", "5">>) => o = Return(<<"1", ".", "5", ".", "0">>)
            /\ (a # None /\ \A k \in 1..Len(a[1]) : a[1][k] \notin Digits) => Carries(o, a[1])
            /\ (a # None /\ \E k \in 1..Len(a[1]) : a[1][k] \in Digits) =>
                   /\ o.kind = "return"
                   /\ IsPlainVersion(o.value)
            /\ o.kind = "return" => IsPlainVersion(o.value)

C14_Witness ==
    /\ Resolving("resolveApiVersion")
    /\ tree.apiVersion = Some(<<"v", "2">>)
    /\ outcome[1] = Return(<<"2", ".", "0", ".", "0">>)

\* The URI of the call, its scheme and the text after its first "://".
Uri == call[1].uri
Scheme(u) == u[1]
Rest(u) == SubSeq(u, 3, Len(u))
FurtherSep(u) == \E k \in 1..Len(Rest(u)) : Rest(u)[k] = SEP

\* The number of '/'-delimited segments of a text: a "://" holds two '/'.
SegmentCount(q) ==
    1 + Cardinality(Positions(q, SLASH)) + 2 * Cardinality(Positions(q, SEP))

\* C15: for a URL of scheme config, file, branch, http or https,
\* parseConfigReference returns {type:'config'}, {type:'file', path:Q},
\* {type:'branch', branchName:Q} or {type:'http', protocol, url:Q}, Q being
\* all the text after the first "://", a '/' or a further "://" included.
C15_NonGlfsReferences ==
    (Resolving("parseConfigReference") /\ IsUrl(Uri) /\ Scheme(Uri) \in ConfigProtocols \ {"glfs"}) =>
        LET p == Scheme(Uri)
            Q == Rest(Uri)
        IN  outcome[1] =
                Return(CASE p = "config" -> Reference("config", <<>>)
                         [] p = "file" -> Reference("file", [path |-> Q])
                         [] p = "branch" -> Reference("branch", [branchName |-> Q])
                         [] OTHER -> Reference("http", [protocol |-> p, url |-> Q]))

\* C16: for a glfs URL whose qualifier has 2, 3 or 4 segments, name is the
\* last segment and namespace the one before it; with 3 segments hostname is
\* the first; with 4 segments hostname is the first and support the
\* remaining one; with 2 segments there is no hostname and no support.
C16_GlfsSegments ==
    (Resolving("parseConfigReference") /\ IsUrl(Uri) /\ Scheme(Uri) = "glfs" /\ ~FurtherSep(Uri)) =>
        LET seg == Split(Rest(Uri), SLASH)
            n == Len(seg)
        IN  n \in {2, 3, 4} =>
                /\ outcome[1].kind = "return"
                /\ outcome[1].value.type = "glfs"
                /\ outcome[1].value.name = Some(seg[n])
                /\ outcome[1].value.namespace = Some(seg[n - 1])
                /\ outcome[1].value.hostname = IF n = 2 THEN None ELSE Some(seg[1])
                /\ outcome[1].value.support = IF n = 4 THEN Some(seg[2]) ELSE None

\* C17: parseConfigReference returns a glfs descriptor only when the
\* qualifier has 2, 3 or 4 segments; with any other number it throws the
\* error that quotes the URI.
C17_GlfsMalformed ==
    (Resolving("parseConfigReference") /\ IsUrl(Uri) /\ Scheme(Uri) = "glfs") =>
        LET n == SegmentCount(Rest(Uri))
        IN  /\ outcome[1].kind = "return" => n \in {2, 3, 4}
            /\ n \notin {2, 3, 4} => outcome[1] = GlfsError(Uri)

\* C18: for a URI whose scheme is none of config, file, branch, http, https
\* and glfs, parseConfigReference throws the unsupported-protocol error,
\* which names the scheme and is not the error of a malformed glfs URI.
C18_UnsupportedProtocol ==
    (Resolving("parseConfigReference") /\ IsUrl(Uri) /\ Scheme(Uri) \notin ConfigProtocols) =>
        /\ outcome[1] = UnsupportedError(Scheme(Uri))
        /\ outcome[1] # GlfsError(Uri)

\* C19: parseElementUri accepts the types feature, release, hotfix and
\* support and no other, and returns {type, qualifier}, the qualifier being
\* all the text after the first "://", unchanged.
C19_ElementReferences ==
    (Resolving("parseElementUri") /\ IsUrl(Uri)) =>
        IF Scheme(Uri) \in ElementTypes
        THEN outcome[1] = Return([type |-> Scheme(Uri), qualifier |-> Rest(Uri)])
        ELSE outcome[1].kind = "throw"

\* The older shape has accepted the document and the current one has seen it.
AcceptedByOlder ==
    /\ Resolving("parse")
    /\ outcome[1].kind = "return"
    /\ rel # "none"

\* The keys the raw document holds in one object of a level.
KeysHeld(r, level, e) ==
    {key \in DOMAIN e : key \in PlainKeys(level) \/ e[key] # None}
    \cup {p[2] : p \in {q \in r.numbers \cup r.extras : q[1] = level}}

\* Every key of the document is one the shape declares.
DeclaredKeysOnly(v, r) ==
    /\ KeysHeld(r, "config", r.doc) \subseteq DOMAIN Shape(v, "config")
    /\ \A level \in EntryLevels : r.doc[level] # None =>
           \A i \in 1..Len(r.doc[level][1]) :
               LET e == r.doc[level][1][i]
               IN  /\ KeysHeld(r, level, e) \subseteq DOMAIN Shape(v, level)
                   /\ level = "supports" =>
                          \A b \in BranchFields : e[b] # None =>
                              \A j \in 1..Len(e[b][1]) :
                                  KeysHeld(r, b, e[b][1][j]) \subseteq DOMAIN Shape(v, b)

Hashable ==
    /\ rel = "validated"
    /\ phase = "derived" => ENABLED CalculateHashOther
    /\ phase = "otherHashed" => ENABLED ToHashOther
    /\ fedOther # None => Bytes(fedOther[1]) # <<>>
    /\ docOther # None => docOther[1].identifier = raw[1].doc.identifier

ListedRequired ==
    {<<"config", "identifier">>, <<"submodules", "name">>, <<"submodules", "path">>}
    \cup (BranchFields \X {"name", "branchName", "sourceSha"})
    \cup ({"supports"} \X {"name", "masterBranchName", "developBranchName", "sourceSha"})

OtherRequired ==
    {<<"upstreams", "name">>, <<"upstreams", "url">>, <<"integrations", "plugin">>,
     <<"commitMessageTemplates", "name">>, <<"commitMessageTemplates", "message">>,
     <<"tagTemplates", "name">>, <<"tagTemplates", "tag">>}

\* The document holds an object of the level.
HasObjects(r, level) ==
    \/ level = "config"
    \/ r.doc[level] # None
    \/ /\ level \in BranchFields
       /\ r.doc.supports # None
       /\ \E k \in 1..Len(r.doc.supports[1]) : r.doc.supports[1][k][level] # None

\* What is wrong with a raw document, at any depth: the keys its objects
\* lack and the keys that hold a number.
RECURSIVE Flaws(_)
Flaws(r) ==
    {[key |-> p, kind |-> "ill-typed"] : p \in {q \in r.numbers : HasObjects(r, q[1])}}
    \cup {[key |-> p, kind |-> "missing"] :
             p \in {q \in r.absent \ r.numbers : HasObjects(r, q[1])}}
    \cup (IF r.doc.submodules # None /\ r.nested # None /\ ConfigKey \notin r.numbers \cup r.absent
          THEN Flaws(r.nested[1]) ELSE {})

Declared(p) == p = ConfigKey \/ p[2] \in DOMAIN CurrentShape(p[1])

C23_Deterministic ==
    /\ \A k \in Runs :
           (runs[1].calls[k] # None /\ runs[1].calls[k][1].digest # None) =>
               runs[1].calls[k][1].digest[1]
                   = Bytes(ConfigUpdateHash(TargetTree(runs[1].calls[k][1].on)))
    /\ \A j, k \in Runs : j # k => HashObject(j) # HashObject(k)

C23_Witness ==
    /\ runs[1].calls[1] # None /\ runs[1].calls[2] # None
    /\ runs[1].calls[1][1].digest # None /\ runs[1].calls[2][1].digest # None
    /\ runs[1].calls[1][1].overlapped /\ runs[1].calls[2][1].overlapped
    /\ runs[1].calls[1][1].on = "tree" /\ runs[1].calls[2][1].on = "other"
    /\ tree # other[1]

\* A tree with the nested Configs of its submodules taken away.
WithoutNested(c) ==
    [c EXCEPT !.submodules = MapSeq(@, LAMBDA m : [m EXCEPT !.config = None])]

BothHashed == rel = "variant" /\ fed # None /\ fedOther # None

\* C24: two trees that differ only inside the nested Config of a submodule
\* that is not a shadow entry feed different input to the hash.
C24_NestedConfigHashed ==
    (BothHashed /\ tree # other[1] /\ WithoutNested(tree) = WithoutNested(other[1])
        /\ ShadowCount(tree) = 0 /\ ShadowCount(other[1]) = 0)
    => Bytes(fed[1]) # Bytes(fedOther[1])

\* C28: two trees without shadow entries that differ in the value of a
\* hashed field feed different byte sequences to the hash.
C28_InputIdentifiesTree ==
    (BothHashed /\ WithoutNested(tree) # WithoutNested(other[1])
        /\ ShadowCount(tree) = 0 /\ ShadowCount(other[1]) = 0)
    => Bytes(fed[1]) # Bytes(fedOther[1])

\* The two trees differ in the text of included or excluded globs only,
\* and hold as many of each.
GlobsDiffer ==
    /\ rel = "variant"
    /\ tree # other[1]
    /\ [tree EXCEPT !.included = <<>>, !.excluded = <<>>]
           = [other[1] EXCEPT !.included = <<>>, !.excluded = <<>>]
    /\ Len(tree.included) = Len(other[1].included)
    /\ Len(tree.excluded) = Len(other[1].excluded)

\* C29: in the hash engine of every shape, two trees that differ only in
\* the text of an included or excluded glob feed different input.
C29_GlobsHashedByText ==
    (GlobsDiffer /\ Resolving("calculateHash"))
    => Bytes(outcome[1].value.tree) # Bytes(outcome[1].value.other)

\* The releases and hotfixes of a canonical document, and the entries of
\* the tree they were made from, in the same order.
DocFlagged(d) ==
    OrEmpty(d.releases) \o OrEmpty(d.hotfixes)
    \o Flat(MapSeq(OrEmpty(d.supports), LAMBDA p : OrEmpty(p.releases) \o OrEmpty(p.hotfixes)))

TreeFlagged(c) ==
    Visible(c.releases) \o Visible(c.hotfixes)
    \o Flat(MapSeq(c.supports, LAMBDA p : Visible(p.releases) \o Visible(p.hotfixes)))

\* C25: the canonical document omits the intermediate flag of a Release or
\* Hotfix when it is false and keeps it when it is true.
C25_IntermediateOmitted ==
    \A st \in BOOLEAN : docs[st] # None =>
        \A i \in 1..Len(DocFlagged(docs[st][1])) :
            DocFlagged(docs[st][1])[i].intermediate
                = (IF TreeFlagged(tree)[i].intermediate THEN Some(TRUE) ELSE None)

\* C26: calculateHash, updateHash, toHash, resolveVersion and
\* resolveApiVersion leave every field and collection of the tree as it
\* was, the shadow entries and their positions included; the shadow entries
\* are left out of the values the operations compute only.
C26_TreeUnchanged == [][tree' = tree]_vars

C26_Witness ==
    /\ phase = "stamped"
    /\ call # None
    /\ fed # None
    /\ tree.features[1].shadow
    /\ Len(tree.features) = 2
    /\ Len(docs[FALSE][1].features[1]) = 1
    /\ tree.supports # <<>>
    /\ Len(tree.supports[1].releases) = 2
    /\ Len(docs[TRUE][1].supports[1][1].releases[1]) = 1

\* ---------------------------------------------------------------------
\* Documents of the legacy shape that declare the single version field
\* ---------------------------------------------------------------------

\* resolveVersion of the legacy Config: the single version field.
LegacyConfigResolveVersion(c) == ResolveSelected(c.version)

\* Documents that use the fields of the legacy schema only.
LegacyVersionDocuments ==
    {[ConfigToHash(EmptyConfig(id, m), FALSE) EXCEPT !.version = v] :
        id \in {sA, sB}, m \in BOOLEAN, v \in OptVersions}

InitLegacyVersion ==
    /\ phase = "stamped"
    /\ tree = EmptyConfig(sA, TRUE)
    /\ fed = None
    /\ docs = [st \in BOOLEAN |-> None]
    /\ other = None
    /\ rel = "none"
    /\ raw = None
    /\ swapped = None
    /\ fedOther = None
    /\ docOther = None
    /\ fedLegacy = None
    /\ call = None
    /\ outcome = None
    /\ runs = None

\* resolveVersion on the legacy tree of the document.
LegacyResolveVersion ==
    /\ raw # None
    /\ call = None
    /\ call' = Some([op |-> "resolveVersion", registry |-> "legacy"])
    /\ outcome' = Some(LegacyConfigResolveVersion(LegacyBuildConfig(raw[1])))
    /\ UNCHANGED Untouched

\* resolveVersion on the tree the current registry builds from the document.
ResolveVersionOther(type) ==
    /\ other # None
    /\ call = None
    /\ call' = Some([op |-> "resolveVersion", registry |-> "current", type |-> type])
    /\ outcome' = Some(ConfigResolveVersion(other[1], type))
    /\ UNCHANGED Untouched

NextLegacyVersion ==
    \/ \E d \in LegacyVersionDocuments : Validate(d)
    \/ CalculateHashOther
    \/ ToHashOther
    \/ LegacyCalculateHash
    \/ LegacyResolveVersion
    \/ \E type \in Types : ResolveVersionOther(type)

SpecLegacyVersion == InitLegacyVersion /\ [][NextLegacyVersion]_vars

\* What resolution of a version field gives: undefined when the field is
\* absent, the normalized version when it is a valid one, and an error
\* carrying the raw string otherwise.
Resolved(v, o) ==
    IF v = None THEN o = Return(None)
    ELSE IF SemverClean(v[1]) # None THEN o = Return(SemverClean(v[1]))
    ELSE Carries(o, v[1])

Feeds(feed, v) == \E i \in 1..Len(feed) : feed[i].g = "version" /\ feed[i].v = v

\* C27: for a document of the legacy shape that declares the single
\* version field, resolveVersion of the legacy tree reads that field
\* (the normalized version when valid, an error when present and
\* unparsable), and the tree the current registry builds from the document
\* feeds the declared value to the hash and keeps it in the canonical
\* document.
C27_LegacyVersion ==
    /\ (Resolving("resolveVersion") /\ call[1].registry = "legacy")
        => Resolved(raw[1].version, outcome[1])
    /\ (fedOther # None /\ raw[1].version # None)
        => Feeds(fedOther[1], raw[1].version[1])
    /\ docOther # None => docOther[1].version = raw[1].version

\* ---------------------------------------------------------------------
\* The objects of a canonical document, and the tree it was made from
\* ---------------------------------------------------------------------

\* An object reachable from the document toHash returns: the array, map or
\* entry at a site (of the i-th submodule or integration of the document;
\* its j-th element or value), made by toHash (own) or an object the tree
\* itself holds.
Made(site, i) == [site |-> site, i |-> i, j |-> 0, own |-> TRUE]
Held(site, i, j) == [site |-> site, i |-> i, j |-> j, own |-> FALSE]

\* s.slice(): a new array that holds the elements of s themselves.
Slice(site, element, i, objects) ==
    {Made(site, i)} \cup {Held(element, i, j) : j \in objects}

\* { ...m }: a new object that holds the values of m themselves; of these
\* the arrays can be changed in place.
Spread(site, value, i, m) ==
    IF m = <<>> THEN {}
    ELSE {Made(site, i)} \cup {Held(value, i, j) : j \in {k \in 1..Len(m) : m[k].v.t = "a"}}

\* SubmoduleBase.toHash, for the i-th submodule of the document.
SubmoduleObjects(s, i) ==
    {Made("submodule", i)}
    \cup (IF Len(s.tags) > 0 THEN Slice("submodule.tags", "submodule.tag", i, {}) ELSE {})
    \cup Spread("submodule.labels", "submodule.label", i, s.labels)
    \cup Spread("submodule.annotations", "submodule.annotation", i, s.annotations)

\* IntegrationBase.toHash, for the i-th integration of the document.
IntegrationObjects(g, i) ==
    {Made("integration", i)}
    \cup Spread("integration.options", "integration.option", i, g.options)

\* ConfigBase.toHash
ConfigObjects(c) ==
    LET submodules == Visible(c.submodules)
        dependencies == IF c.dependencies = None THEN <<>> ELSE c.dependencies[1]
    IN  (IF Len(c.upstreams) > 0 THEN Slice("upstreams", "upstream", 0, 1..Len(c.upstreams)) ELSE {})
        \cup (IF Len(c.included) > 0 THEN Slice("included", "include", 0, {}) ELSE {})
        \cup (IF Len(c.excluded) > 0 THEN Slice("excluded", "exclude", 0, {}) ELSE {})
        \cup (IF Len(c.tags) > 0 THEN Slice("tags", "tag", 0, {}) ELSE {})
        \cup (IF Len(dependencies) > 0
              THEN Slice("dependencies", "dependency", 0,
                         {k \in 1..Len(dependencies) : dependencies[k].t = "m"})
              ELSE {})
        \cup Spread("labels", "label", 0, c.labels)
        \cup Spread("annotations", "annotation", 0, c.annotations)
        \cup UNION {SubmoduleObjects(submodules[n], n) : n \in 1..Len(submodules)}
        \cup UNION {IntegrationObjects(c.integrations[n], n) : n \in 1..Len(c.integrations)}

\* The position in s of its n-th entry that is not a shadow entry.
VisibleAt(s, n) ==
    CHOOSE i \in 1..Len(s) :
        ~s[i].shadow /\ Cardinality({k \in 1..i : ~s[k].shadow}) = n

sX == <<"x">>

\* A change made in place to the object at a site: push('x') on an array,
\* a new key 'x' on a map, a field set to 'x' on an entry.
Mutated(site, v) ==
    CASE site \in {"included", "excluded", "tags", "submodule.tags"} -> Append(v, sX)
      [] site = "upstreams" -> Append(v, [name |-> sX, url |-> sX])
      [] site = "dependencies" -> Append(v, DepStr(sX))
      [] site \in {"labels", "annotations", "submodule.labels", "submodule.annotations",
                   "integration.options"} -> Append(v, Entry(sX, JStr(sX)))
      [] site \in {"label", "annotation", "submodule.label", "submodule.annotation",
                   "integration.option"} -> JArr(Append(v.a, sX))
      [] site = "upstream" -> [v EXCEPT !.url = sX]
      [] site = "dependency" -> DepMap(Append(v.m, Entry(sX, JStr(sX))))
      [] site = "submodule" -> [v EXCEPT !.name = sX]
      [] site = "integration" -> [v EXCEPT !.plugin = sX]

\* The document, seen after the change to its object o.
MutatedDocument(d, o) ==
    CASE o.site = "upstreams" -> [d EXCEPT !.upstreams[1] = Mutated(o.site, @)]
      [] o.site = "upstream" -> [d EXCEPT !.upstreams[1][o.j] = Mutated(o.site, @)]
      [] o.site = "included" -> [d EXCEPT !.included[1] = Mutated(o.site, @)]
      [] o.site = "excluded" -> [d EXCEPT !.excluded[1] = Mutated(o.site, @)]
      [] o.site = "tags" -> [d EXCEPT !.tags[1] = Mutated(o.site, @)]
      [] o.site = "dependencies" -> [d EXCEPT !.dependencies[1] = Mutated(o.site, @)]
      [] o.site = "dependency" -> [d EXCEPT !.dependencies[1][o.j] = Mutated(o.site, @)]
      [] o.site = "labels" -> [d EXCEPT !.labels[1] = Mutated(o.site, @)]
      [] o.site = "label" -> [d EXCEPT !.labels[1][o.j].v = Mutated(o.site, @)]
      [] o.site = "annotations" -> [d EXCEPT !.annotations[1] = Mutated(o.site, @)]
      [] o.site = "annotation" -> [d EXCEPT !.annotations[1][o.j].v = Mutated(o.site, @)]
      [] o.site = "submodule" -> [d EXCEPT !.submodules[1][o.i] = Mutated(o.site, @)]
      [] o.site = "submodule.tags" -> [d EXCEPT !.submodules[1][o.i].tags[1] = Mutated(o.site, @)]
      [] o.site = "submodule.labels" -> [d EXCEPT !.submodules[1][o.i].labels[1] = Mutated(o.site, @)]
      [] o.site = "submodule.label" ->
            [d EXCEPT !.submodules[1][o.i].labels[1][o.j].v = Mutated(o.site, @)]
      [] o.site = "submodule.annotations" ->
            [d EXCEPT !.submodules[1][o.i].annotations[1] = Mutated(o.site, @)]
      [] o.site = "submodule.annotation" ->
            [d EXCEPT !.submodules[1][o.i].annotations[1][o.j].v = Mutated(o.site, @)]
      [] o.site = "integration" -> [d EXCEPT !.integrations[1][o.i] = Mutated(o.site, @)]
      [] o.site = "integration.options" ->
            [d EXCEPT !.integrations[1][o.i].options[1] = Mutated(o.site, @)]
      [] o.site = "integration.option" ->
            [d EXCEPT !.integrations[1][o.i].options[1][o.j].v = Mutated(o.site, @)]

\* The tree, seen after the change to an object o that it holds itself.
MutatedTree(c, o) ==
    CASE o.site = "upstream" -> [c EXCEPT !.upstreams[o.j] = Mutated(o.site, @)]
      [] o.site = "dependency" -> [c EXCEPT !.dependencies[1][o.j] = Mutated(o.site, @)]
      [] o.site = "label" -> [c EXCEPT !.labels[o.j].v = Mutated(o.site, @)]
      [] o.site = "annotation" -> [c EXCEPT !.annotations[o.j].v = Mutated(o.site, @)]
      [] o.site = "submodule.label" ->
            [c EXCEPT !.submodules[VisibleAt(c.submodules, o.i)].labels[o.j].v = Mutated(o.site, @)]
      [] o.site = "submodule.annotation" ->
            [c EXCEPT !.submodules[VisibleAt(c.submodules, o.i)].annotations[o.j].v = Mutated(o.site, @)]
      [] o.site = "integration.option" ->
            [c EXCEPT !.integrations[o.i].options[o.j].v = Mutated(o.site, @)]

SharedTrees ==
    LET full ==
            [EmptyConfig(sA, TRUE) EXCEPT
                !.upstreams = <<[name |-> sA, url |-> sA]>>,
                !.included = <<sA>>,
                !.excluded = <<sB>>,
                !.tags = <<sA>>,
                !.dependencies = Some(<<DepStr(sA), DepMap(<<Entry(sA, JStr(sA))>>)>>),
                !.labels = <<Entry(sA, JStr(sA)), Entry(sB, JArr(<<sA, sAA>>))>>,
                !.annotations = <<Entry(sA, JArr(<<sA>>))>>,
                !.submodules =
                    <<Shadow(Submodule(sA, None, <<>>, <<>>, <<>>, None)),
                      Submodule(sAA, None, <<sA>>, <<Entry(sB, JArr(<<sA>>))>>,
                                <<Entry(sA, JStr(sA)), Entry(sB, JArr(<<>>))>>, None)>>,
                !.integrations = <<[plugin |-> sA, options |-> <<Entry(sA, JArr(<<sA>>))>>]>>]
    IN  {full,
         [full EXCEPT !.managed = FALSE],
         [full EXCEPT !.submodules = <<>>, !.integrations = <<>>],
         [EmptyConfig(sA, TRUE) EXCEPT !.included = <<sA>>, !.labels = <<Entry(sA, JStr(sA))>>],
         [EmptyConfig(sB, TRUE) EXCEPT !.upstreams = <<[name |-> sA, url |-> sA], [name |-> sB, url |-> sA]>>]}

InitShared ==
    /\ phase = "built"
    /\ tree \in SharedTrees
    /\ fed = None
    /\ docs = [st \in BOOLEAN |-> None]
    /\ other = None
    /\ rel = "none"
    /\ raw = None
    /\ swapped = None
    /\ fedOther = None
    /\ docOther = None
    /\ fedLegacy = None
    /\ call = None
    /\ outcome = None
    /\ runs = None

\* A change in place to an object of the document toHash(st) returned. An
\* object the tree holds is the same object in the tree and in every
\* document made from it; `other` keeps the tree as it was before.
MutateDocument(st, o) ==
    /\ phase \in {"canon", "stamped"}
    /\ docs[st] # None
    /\ o \in ConfigObjects(tree)
    /\ docs' = [t \in BOOLEAN |->
                    IF docs[t] # None /\ (t = st \/ ~o.own)
                    THEN Some(MutatedDocument(docs[t][1], o))
                    ELSE docs[t]]
    /\ tree' = IF o.own THEN tree ELSE MutatedTree(tree, o)
    /\ other' = Some(tree)
    /\ rel' = "before"
    /\ call' = Some([op |-> "mutate", stampApiVersion |-> st, object |-> o])
    /\ phase' = "mutated"
    /\ UNCHANGED <<fed, raw, swapped, fedOther, docOther, fedLegacy, outcome, runs>>

\* The later calculateHash on the tree.
CalculateHashAgain ==
    /\ phase = "mutated"
    /\ outcome' = Some(Return(ConfigUpdateHash(tree)))
    /\ phase' = "rehashed"
    /\ UNCHANGED <<tree, fed, docs, other, rel, raw, swapped, fedOther, docOther, fedLegacy, call, runs>>

NextShared ==
    \/ CalculateHash
    \/ \E st \in BOOLEAN : ToHash(st)
    \/ \E st \in BOOLEAN : \E o \in ConfigObjects(tree) : MutateDocument(st, o)
    \/ CalculateHashAgain

SpecShared == InitShared /\ [][NextShared]_vars

\* C30: after a change in place to any object of a document toHash
\* returned, every field of the tree is as it was before, and the later
\* calculateHash feeds the hash what the earlier one fed.
C30_NoSharedState ==
    phase = "rehashed" =>
        /\ tree = other[1]
        /\ Bytes(outcome[1].value) = Bytes(fed[1])

====
